---- MODULE Spec2Model ----
(***************************************************************************)
(* pvDataCPP: the fixed-size free-list pool (vectorPool.cpp, vectorAlloc.h)*)
(* and the array codec (PVDataCreateFactory.cpp), as state machines.       *)
(***************************************************************************)
EXTENDS Integers, Sequences, FiniteSets, TLC

(***************************************************************************)
(* Bounds of the model.                                                    *)
(***************************************************************************)
\* buffers of the pool that clients can hold at once
MaxHeld == 2
\* largest psize given to capped()/cached(); initial() ranges one further
MaxPool == 2
\* largest element count given to fixed()
MaxSlot == 2
\* width of size_t in bits, scaled down
SizeBits == 3

SizeMod == 2 ^ SizeBits
\* the threads calling into one pool: one can be inside the system allocator
\* (pool lock dropped) while the other runs alloc or a deleter
Threads == {1, 2}
\* addresses the system allocator can hand out; 0 is the null pointer
NULL == 0
MaxAddr == MaxPool + 1 + MaxHeld + Cardinality(Threads)
Addrs == 1 .. MaxAddr
\* sizeof(E) of the element types tried
ElemSizes == {1, 2}

Min(a, b) == IF a < b THEN a ELSE b
Max(a, b) == IF a > b THEN a ELSE b

VARIABLES
    \* ---- freelist_allocator (vectorPool.cpp:94-185) ----
    elemsize, allocsize, numalloc, capped,  \* const members
    flist,          \* std::vector<void*> flist
    nallocd,        \* size_t nallocd
    \* ---- environment of the pool ----
    ndebug,         \* the build defines NDEBUG (assert compiled out)
    aborted,        \* an assert() failed: the process is gone
    heap,           \* addresses malloc'ed from the system and not yet free'd
    held,           \* address -> number of shared_vector<void> owners holding it
    pc, loc,        \* per thread: position inside alloc / the deleter, locals
    last,           \* record of the request alloc decided last
    sysfail,        \* some alloc threw because calloc/malloc returned NULL
    ep,             \* history of the current run of simultaneous allocations
    track,          \* which history is kept: "req" (last), "run" (ep),
                    \* "mem" (mem), "info" (info)
    mem,            \* address -> what the buffer holds and how it was given
    info,           \* what info() returned last, and the pool as it was then
    lock,           \* the thread that holds the pool's mutex between steps
    handles,        \* vector_allocator handles to the pool that clients keep
    alive           \* the pool's destructor has not run

poolvars == <<elemsize, allocsize, numalloc, capped, flist, nallocd, ndebug,
              aborted, heap, held, pc, loc, last, sysfail, ep, track, mem,
              info, lock, handles, alive>>

VARIABLES
    \* ---- DefaultPVArray<T> and its codec (PVDataCreateFactory.cpp) ----
    cphase,         \* "off", "ser", "des" or "end"
    w,              \* sizeof(T)
    bo, ho,         \* byte order of the ByteBuffer, and of the host
    x,              \* value of the array node being serialized
    ser,            \* serialize: position and locals, output buffer
    wire,           \* the bytes flushed to the transport so far
    value,          \* value of the array node being deserialized into
    des,            \* deserialize: position and locals, input buffer
    ref             \* the value the reference run left in its target

codecvars == <<cphase, w, bo, ho, x, ser, wire, value, des, ref>>

VARIABLES
    pvs,            \* the value tree compress is given: its fields by offset
    bitSet,         \* the offsets whose bit is set
    given,          \* the bits that were set when compress was called
    bpc             \* compress: 0 not called, k the k-th structure is next

bitvars == <<pvs, bitSet, given, bpc>>

VARIABLES
    nodes,          \* the value nodes by id
    orig,           \* the root of the tree built first
    copy,           \* the root createPVField returned, 0 before
    lastop,         \* the last call on a node: arguments, outcome, hook
    npc             \* "postPut" between the store and the hook of a put

nodevars == <<nodes, orig, copy, lastop, npc>>

VARIABLES
    \* ---- the registry of pools (vector_allocator_impl) ----
    poolListOnce,   \* epicsThreadOnce: "uninit", "running" or "done"
    poolListLock,   \* the registry's mutex: times created, thread holding it
    poolList,       \* the list of registered pools, by id
    impls,          \* pool id -> the pool: how far it is built or destroyed
    rpc,            \* where each thread is in its registry operation
    rloc,           \* the locals of that operation, and what it returned
    fate,           \* "ok", or "crashed" once the process has ended
    seen            \* what has happened so far in this run

regvars == <<poolListOnce, poolListLock, poolList, impls, rpc, rloc, fate,
             seen>>

VARIABLES
    \* ---- an array node's buffer and a view of it (shared_vector) ----
    sbufs,          \* the buffers in existence: their elements, by id
    svalue,         \* DefaultPVArray<T>::value: buffer and element count
    sview,          \* the const_svector a caller got from view()
    staken,         \* <<what the view showed when it was taken>>, or << >>
    sop             \* the operation applied last

viewvars == <<sbufs, svalue, sview, staken, sop>>

VARIABLES
    \* ---- epics::debug::shared_ptr_base (debugPtr.cpp) ----
    dptrs,          \* the pointer objects by address: alive, track, base
    pointers,       \* debugGbl::pointers
    refs,           \* tracker::refs, by tracker
    dop             \* the operation applied last

dbgvars == <<dptrs, pointers, refs, dop>>

vars == <<poolvars, codecvars, bitvars, nodevars, regvars, viewvars, dbgvars>>

Range(s) == {s[j] : j \in 1 .. Len(s)}

\* what an action of one part leaves alone
notpool == <<codecvars, bitvars, nodevars, regvars, viewvars, dbgvars>>
notcodec == <<poolvars, bitvars, nodevars, regvars, viewvars, dbgvars>>
notbits == <<poolvars, codecvars, nodevars, regvars, viewvars, dbgvars>>
notnode == <<poolvars, codecvars, bitvars, regvars, viewvars, dbgvars>>
notreg == <<poolvars, codecvars, bitvars, nodevars, viewvars, dbgvars>>
notview == <<poolvars, codecvars, bitvars, nodevars, regvars, dbgvars>>
notdbg == <<poolvars, codecvars, bitvars, nodevars, regvars, viewvars>>

NoLoc == [A |-> NULL, zero |-> FALSE]
NoReq == [n |-> 0, size |-> 0, out |-> 0, result |-> "none"]
NoEp  == [f |-> 0, k |-> 0, phase |-> "idle", mono |-> TRUE]
\* a buffer nobody was given: c what its bytes are ("zero": all zero,
\* "junk": anything else), z it was handed out zeroed and not written since,
\* r it was handed out from the free list, dyn it is the dynamic pool's
\* the mutex is held by nobody
Unlocked == 0
NoMem == [c |-> "junk", z |-> FALSE, r |-> FALSE, dyn |-> FALSE]
\* allocator_info::allocator_info(), with the pool as it was at the call:
\* ipsize the builder's initial() setting, used whether alloc was ever
\* called, heldthen the buffers held, inthen the allocations inside the
\* underlying allocator, flistthen the free-list length
NoInfo == [called |-> FALSE, num_allocs |-> 0, size_allocs |-> 0,
           num_free |-> 0, size_free |-> 0, allocsize |-> 0,
           fixedsize |-> FALSE, has_stats |-> FALSE,
           ipsize |-> 0, used |-> FALSE, heldthen |-> 0, inthen |-> 0,
           flistthen |-> 0]

\* elemsize*allocsize, in size_t
SlotBytes == (elemsize * allocsize) % SizeMod

\* buffers clients hold, counted over the addresses 1..a
RECURSIVE NHeld(_)
NHeld(a) == IF a = 0 THEN 0 ELSE held[a] + NHeld(a - 1)

\* allocations a client holds or that alloc has admitted and not yet returned
Outstanding ==
    NHeld(MaxAddr)
    + Cardinality({t \in Threads : pc[t] \in {"sysalloc", "relock"}})

\* no array is being serialized
\* (roomy: a flush was requested while the buffer had room for an element)
NoSer == [pc |-> "off", count |-> 0, cur |-> 0, obuf |-> << >>, cap |-> 0,
          direct |-> FALSE, roomy |-> FALSE]
\* (frag: the bytes a fragment brings; short: the bytes that were missing of
\* one element when the loop called ensureData last, 0 before; turn: whether
\* the loop has called ensureData an odd number of times)
NoDes == [pc |-> "off", run |-> 0, feed |-> "all", direct |-> FALSE,
          buf |-> << >>, stream |-> << >>, size |-> 0, remaining |-> 0,
          cur |-> 0, nextvalue |-> << >>, path |-> "none", asked |-> 0,
          before |-> << >>, frag |-> 1, short |-> 0, turn |-> 0]

CodecOff ==
    /\ cphase = "off"
    /\ w = 1 /\ bo = "big" /\ ho = "big"
    /\ x = << >> /\ wire = << >> /\ value = << >> /\ ref = << >>
    /\ ser = NoSer /\ des = NoDes

\* no bitset is being compressed
NoTree == [n |-> 1, parent |-> << >>]
BitsOff == pvs = NoTree /\ bitSet = {} /\ given = {} /\ bpc = 0

\* no value node exists
NoNode == [kind |-> "none", value |-> << >>, immutable |-> FALSE,
           capacityMutable |-> FALSE, reserved |-> 0, sealed |-> << >>,
           kids |-> << >>]
NoOp == [op |-> "none", id |-> 0, root |-> 0, arg |-> << >>,
         result |-> "none", posted |-> 0, seen |-> << >>, before |-> NoNode,
         other |-> << >>, otherAfter |-> << >>, rest |-> << >>]
NodeOff ==
    /\ nodes = << >> /\ orig = 0 /\ copy = 0 /\ lastop = NoOp /\ npc = "off"

\* no pool was ever built
NoImpl == [st |-> "none", fixed |-> FALSE, name |-> "", nallocd |-> 0]
\* a thread outside every registry operation: p the pool it builds or
\* destroys, op the call ("collect" or "print"), nallocs, cur, infos, k the
\* locals of collect_allocator_info, out the stream; listthen the list when
\* it was walked, snap what each pool on it would report, ended the call
\* has returned
NoRLoc == [p |-> 0, op |-> "none", nallocs |-> 0, cur |-> 0, infos |-> << >>,
           k |-> 0, out |-> << >>, listthen |-> << >>, snap |-> << >>,
           ended |-> FALSE]
\* nomutex: the registry's mutex was locked before it was created; late:
\* collect_info was called on a pool whose destructor had begun; early: on
\* a pool still under construction
NoSeen == [nomutex |-> FALSE, late |-> FALSE, early |-> FALSE]
RegOff ==
    /\ poolListOnce = "off" /\ poolListLock = [created |-> 0, owner |-> 0]
    /\ poolList = << >> /\ impls = << >> /\ rpc = << >> /\ rloc = << >>
    /\ fate = "off" /\ seen = NoSeen

\* a shared_vector that refers to no buffer
NoHandle == [b |-> 0, cnt |-> 0]
ViewOff ==
    /\ sbufs = << >> /\ svalue = NoHandle /\ sview = NoHandle
    /\ staken = << >> /\ sop = "off"

\* no debug pointer was ever made
DbgOff ==
    /\ dptrs = << >> /\ pointers = {} /\ refs = << >> /\ dop = "off"

(***************************************************************************)
(* pool_builder().fixed(s).capped(n)|cached(n).initial(i).build<E>()       *)
(***************************************************************************)
\* build_impl: asize==0 throws invalid_argument, so a built pool has s >= 1;
\* e*s is kept representable in size_t (the slot is a real buffer).
PoolConfigs ==
    {c \in [e : ElemSizes, a : 1 .. MaxSlot, n : 0 .. MaxPool,
            i : 0 .. (MaxPool + 1), c : BOOLEAN] : c.e * c.a < SizeMod}

\* the constructor: assert(i<=numalloc), then i buffers pushed on flist
CtorAsserts(n, i) == i <= n

freelist_allocator(cfg, nd) ==
    /\ elemsize = cfg.e
    /\ allocsize = cfg.a
    /\ numalloc = cfg.n
    /\ capped = cfg.c
    /\ ndebug = nd
    /\ aborted = (~nd /\ ~CtorAsserts(cfg.n, cfg.i))
    /\ nallocd = 0
    /\ flist = IF ~nd /\ ~CtorAsserts(cfg.n, cfg.i) THEN << >>
               ELSE [j \in 1 .. cfg.i |-> j]
    /\ heap = IF ~nd /\ ~CtorAsserts(cfg.n, cfg.i) THEN {} ELSE 1 .. cfg.i

InitPoolOf(tr) ==
    /\ CodecOff /\ BitsOff /\ NodeOff /\ RegOff /\ ViewOff /\ DbgOff
    /\ track = tr
    /\ \E cfg \in PoolConfigs, nd \in BOOLEAN :
        /\ freelist_allocator(cfg, nd)
        /\ info = IF tr = "info" THEN [NoInfo EXCEPT !.ipsize = cfg.i]
                  ELSE NoInfo
    /\ held = [a \in Addrs |-> 0]
    /\ pc = [t \in Threads |-> "idle"]
    /\ loc = [t \in Threads |-> NoLoc]
    /\ last = NoReq
    /\ sysfail = FALSE
    /\ ep = NoEp
    /\ lock = Unlocked
    /\ handles = 1 /\ alive = TRUE
    /\ mem \in [Addrs -> {NoMem, [NoMem EXCEPT !.c = "zero"]}]
    /\ \A a \in Addrs : (tr # "mem" \/ a \notin heap) => mem[a] = NoMem

(***************************************************************************)
(* freelist_allocator::alloc                                               *)
(***************************************************************************)
\* the two assert()s at the entry of alloc
AllocAsserts ==
    /\ (~capped \/ nallocd <= numalloc)
    /\ (~capped \/ nallocd + Len(flist) <= numalloc)

\* Rejects with the cap compared one too late
RejectsPastCap(asize) ==
    asize > SlotBytes \/ (capped /\ nallocd > numalloc)

\* Rejects with the cap applied whatever the policy
RejectsAnyPolicy(asize) ==
    asize > SlotBytes \/ nallocd = numalloc

\* Rejects with the slot size required exactly
RejectsUnlessExact(asize) ==
    asize # SlotBytes \/ (capped /\ nallocd = numalloc)

\* if(asize>elemsize*allocsize || (capped && nallocd==numalloc)) throw
Rejects(asize) ==
    asize > SlotBytes \/ (capped /\ nallocd = numalloc)

\* pop_back left out
PopBackForgotten(s) == s

\* flist.pop_back()
PopBack(s) == SubSeq(s, 1, Len(s) - 1)

\* the client can hold one more buffer (it holds at most MaxHeld)
HasFreeHandle == Outstanding < MaxHeld

\* the request decided last: "bad_alloc" thrown at line 144, or admitted (a
\* vector of asize bytes, asize/sizeof(E) elements, is returned unless the
\* system allocator fails); out is Outstanding when it was made
Done(n, asize, out, res) ==
    IF track # "req" THEN last
    ELSE [n |-> n, size |-> IF res = "ok" THEN asize \div elemsize ELSE 0,
          out |-> out, result |-> res]

\* shared_vector<void> V(A, freelist_deleter(...), 0, asize); ret.swap(V)
Give(A) == [held EXCEPT ![A] = @ + 1]

\* history: a run of simultaneous allocations starts when nothing is
\* outstanding; f is the free-list length then, k the buffers obtained since.
\* A buffer obtained after a release has begun ends the run (EpVoid).
EpVoid == [f |-> 0, k |-> 0, phase |-> "rel", mono |-> FALSE]

EpGot(got) ==
    IF track # "run" THEN ep
    ELSE IF ep.mono /\ ep.phase = "acq" THEN [ep EXCEPT !.k = @ + got] ELSE EpVoid

EpRel ==
    IF track # "run" THEN ep
    ELSE IF ep.mono THEN [ep EXCEPT !.phase = "rel"] ELSE EpVoid

EpAdmit(got) ==
    IF track # "run" THEN ep
    ELSE IF nallocd = 0
    THEN [f |-> Len(flist), k |-> got, phase |-> "acq", mono |-> TRUE]
    ELSE EpGot(got)

\* what malloc'ed memory can hold: anything
Uninitialized == IF track = "mem" THEN {"zero", "junk"} ELSE {"junk"}

\* the memset of a recycled buffer left out
ZeroFillForgotten(c, zero) == c

\* if(zero) memset(A, 0, elemsize*allocsize)
ZeroFill(c, zero) == IF zero THEN "zero" ELSE c

\* mem with the buffer at A holding c, handed out as told
MemIs(A, c, z, r, dyn) ==
    IF track # "mem" THEN mem
    ELSE [mem EXCEPT ![A] = [c |-> c, z |-> z, r |-> r, dyn |-> dyn]]

\* the element counts requested: those around the slot size, and those
\* around the count at which elemsize*n wraps
Requests ==
    ((0 .. (allocsize + 1))
        \cup {SizeMod \div elemsize, (SizeMod \div elemsize) + 1, SizeMod - 1})
    \cap (0 .. (SizeMod - 1))

\* idle threads are interchangeable: the lowest one makes the next call
Caller(t) == pc[t] = "idle" /\ \A u \in Threads : pc[u] = "idle" => t <= u

\* the allocator_info returned last is kept until the pool is used again
Forgotten == [NoInfo EXCEPT !.ipsize = info.ipsize, !.used = info.used]

\* the lock kept across the underlying allocation
UnguardForgotten(t) == t

\* mutexUnguard u(g): the lock is released for the underlying allocation
Unguard(t) == Unlocked

\* alloc up to the point where it returns, throws, or drops the lock
alloc(t, n, zero) ==
    LET asize == (elemsize * n) % SizeMod IN
    /\ UNCHANGED notpool
    /\ ~aborted
    /\ lock = Unlocked
    /\ handles > 0
    /\ Caller(t)
    /\ (HasFreeHandle \/ Rejects(asize))
    /\ IF ~ndebug /\ ~AllocAsserts
       THEN /\ aborted' = TRUE
            /\ UNCHANGED <<flist, nallocd, heap, held, pc, loc, last, ep, mem>>
       ELSE IF Rejects(asize)
       THEN /\ last' = Done(n, asize, Outstanding, "bad_alloc")
            /\ UNCHANGED <<aborted, flist, nallocd, heap, held, pc, loc, ep, mem>>
       ELSE IF flist # << >>
       THEN /\ held' = Give(flist[Len(flist)])
            /\ flist' = PopBack(flist)
            /\ nallocd' = (nallocd + 1) % SizeMod
            /\ mem' = LET A == flist[Len(flist)]
                      IN MemIs(A, ZeroFill(mem[A].c, zero), zero, TRUE, FALSE)
            /\ last' = Done(n, asize, Outstanding, "ok")
            /\ ep' = EpAdmit(1)
            /\ UNCHANGED <<aborted, heap, pc, loc>>
       ELSE /\ nallocd' = (nallocd + 1) % SizeMod
            /\ pc' = [pc EXCEPT ![t] = "sysalloc"]
            /\ loc' = [loc EXCEPT ![t] = [A |-> NULL, zero |-> zero]]
            /\ last' = Done(n, asize, Outstanding, "ok")
            /\ ep' = EpAdmit(0)
            /\ UNCHANGED <<aborted, flist, heap, held, mem>>
    /\ info' = [Forgotten EXCEPT !.used = (track = "info")]
    /\ lock' = IF pc'[t] = "sysalloc" THEN Unguard(t) ELSE Unlocked
    /\ UNCHANGED <<elemsize, allocsize, numalloc, capped, ndebug, sysfail, track,
                   handles, alive>>

\* what the system allocator returns on success: an address not in use
\* (addresses are interchangeable; the lowest unused one stands for any)
FreshAddr == IF Addrs \ heap = {} THEN NULL
             ELSE CHOOSE a \in Addrs \ heap : \A b \in Addrs \ heap : a <= b

\* calloc(elemsize, allocsize) / malloc(elemsize*allocsize), lock not held
sysalloc(t) ==
    /\ UNCHANGED notpool
    /\ ~aborted
    /\ info' = Forgotten
    /\ pc[t] = "sysalloc"
    /\ \E A \in {FreshAddr, NULL} :
        /\ loc' = [loc EXCEPT ![t].A = A]
        /\ heap' = IF A = NULL THEN heap ELSE heap \cup {A}
        /\ IF A = NULL THEN mem' = mem
           ELSE \E c \in (IF loc[t].zero THEN {"zero"} ELSE Uninitialized) :
                    mem' = MemIs(A, c, FALSE, FALSE, FALSE)
    /\ pc' = [pc EXCEPT ![t] = "relock"]
    /\ UNCHANGED <<elemsize, allocsize, numalloc, capped, ndebug, aborted,
                   flist, nallocd, held, last, sysfail, ep, track, lock,
                   handles, alive>>

\* (the count left as it is when the underlying allocation has failed)
UndoForgotten(n) == n

\* if(!A) { nallocd--; ... }
Undone(n) == (n + SizeMod - 1) % SizeMod

\* lock taken again: if(!A) {nallocd--; throw}; else the vector is returned
relock(t) ==
    /\ UNCHANGED notpool
    /\ ~aborted
    /\ info' = Forgotten
    /\ pc[t] = "relock"
    /\ lock \in {Unlocked, t}
    /\ lock' = Unlocked
    /\ IF loc[t].A = NULL
       THEN /\ nallocd' = Undone(nallocd)
            /\ sysfail' = TRUE
            /\ UNCHANGED <<held, ep, mem>>
       ELSE /\ held' = Give(loc[t].A)
            /\ ep' = EpGot(1)
            /\ mem' = MemIs(loc[t].A, mem[loc[t].A].c, loc[t].zero, FALSE, FALSE)
            /\ UNCHANGED <<nallocd, sysfail>>
    /\ pc' = [pc EXCEPT ![t] = "idle"]
    /\ loc' = [loc EXCEPT ![t] = NoLoc]
    /\ UNCHANGED <<elemsize, allocsize, numalloc, capped, ndebug, aborted,
                   flist, heap, last, track,
                   handles, alive>>

(***************************************************************************)
(* freelist_deleter::operator()                                            *)
(***************************************************************************)
\* if(alloc->flist.size()<alloc->numalloc)
HasRoom == Len(flist) < numalloc

\* #if !defined(NDEBUG) && !defined(NOMAGIC) memset(a, 0x1b, ...)
Poisoned(c) == IF ndebug THEN c ELSE "junk"

\* the last reference to held[h] is dropped: the locked block of the deleter
deleter(t, a) ==
    /\ UNCHANGED notpool
    /\ ~aborted
    /\ info' = Forgotten
    /\ Caller(t)
    /\ held[a] > 0 /\ ~mem[a].dyn
    /\ lock = Unlocked
    /\ IF ~ndebug /\ ~(nallocd > 0)
       THEN /\ aborted' = TRUE
            /\ UNCHANGED <<flist, nallocd, held, pc, loc, ep, mem>>
       ELSE /\ nallocd' = (nallocd + SizeMod - 1) % SizeMod
            /\ mem' = MemIs(a, Poisoned(mem[a].c), FALSE, FALSE, FALSE)
            /\ held' = [held EXCEPT ![a] = @ - 1]
            /\ ep' = EpRel
            /\ aborted' = aborted
            /\ IF HasRoom
               THEN /\ flist' = Append(flist, a)
                    /\ UNCHANGED <<pc, loc>>
               ELSE /\ pc' = [pc EXCEPT ![t] = "free"]
                    /\ loc' = [loc EXCEPT ![t] = [NoLoc EXCEPT !.A = a]]
                    /\ UNCHANGED flist
    /\ UNCHANGED <<elemsize, allocsize, numalloc, capped, ndebug, heap, last,
                   sysfail, track, lock,
                   handles, alive>>

\* free(a), after the lock was dropped
deleter_free(t) ==
    /\ UNCHANGED notpool
    /\ ~aborted
    /\ info' = Forgotten
    /\ pc[t] = "free"
    /\ heap' = heap \ {loc[t].A}
    /\ mem' = [mem EXCEPT ![loc[t].A] = NoMem]
    /\ pc' = [pc EXCEPT ![t] = "idle"]
    /\ loc' = [loc EXCEPT ![t] = NoLoc]
    /\ UNCHANGED <<elemsize, allocsize, numalloc, capped, ndebug, aborted,
                   flist, nallocd, held, last, sysfail, ep, track, lock,
                   handles, alive>>

NextPool ==
    \/ \E t \in Threads, n \in Requests, zero \in BOOLEAN : alloc(t, n, zero)
    \/ \E t \in Threads : sysalloc(t)
    \/ \E t \in Threads : relock(t)
    \/ \E t \in Threads, a \in Addrs : deleter(t, a)
    \/ \E t \in Threads : deleter_free(t)

(***************************************************************************)
(* default_allocator, and what a holder does to its buffer                 *)
(***************************************************************************)
\* the holder of a buffer writes into it
write(t, a) ==
    /\ UNCHANGED notpool
    /\ ~aborted
    /\ Caller(t)
    /\ held[a] > 0 /\ mem[a].c = "zero"
    /\ mem' = MemIs(a, "junk", FALSE, mem[a].r, mem[a].dyn)
    /\ UNCHANGED <<elemsize, allocsize, numalloc, capped, ndebug, aborted,
                   flist, nallocd, heap, held, pc, loc, last, sysfail, ep,
                   track,
                   info, lock,
                   handles, alive>>

\* default_allocator::alloc: calloc(e, n) or malloc(e*n), no pool state
\* (the client holds one buffer of the dynamic pool at a time)
default_alloc(t, zero) ==
    /\ UNCHANGED notpool
    /\ ~aborted
    /\ Caller(t)
    /\ HasFreeHandle
    /\ \A a \in Addrs : ~mem[a].dyn
    /\ \E A \in {FreshAddr, NULL} :
        IF A = NULL
        THEN UNCHANGED <<heap, held, mem>>
        ELSE /\ heap' = heap \cup {A}
             /\ held' = Give(A)
             /\ \E c \in (IF zero THEN {"zero"} ELSE Uninitialized) :
                    mem' = MemIs(A, c, zero, FALSE, TRUE)
    /\ UNCHANGED <<elemsize, allocsize, numalloc, capped, ndebug, aborted,
                   flist, nallocd, pc, loc, last, sysfail, ep, track,
                   info, lock,
                   handles, alive>>

\* free_deleter::operator(): free(a)
free_deleter(t, a) ==
    /\ UNCHANGED notpool
    /\ ~aborted
    /\ Caller(t)
    /\ held[a] > 0 /\ mem[a].dyn
    /\ held' = [held EXCEPT ![a] = @ - 1]
    /\ heap' = heap \ {a}
    /\ mem' = [mem EXCEPT ![a] = NoMem]
    /\ UNCHANGED <<elemsize, allocsize, numalloc, capped, ndebug, aborted,
                   flist, nallocd, pc, loc, last, sysfail, ep, track,
                   info, lock,
                   handles, alive>>

\* the byte counts with the slot size left out
CountOnly(k) == k % SizeMod

\* the size_t products collect_info computes
PoolBytes(k) == (k * elemsize * allocsize) % SizeMod

\* freelist_allocator::collect_info, as vector_allocator::info() calls it
collect_info(t) ==
    /\ UNCHANGED notpool
    /\ ~aborted
    /\ Caller(t)
    /\ lock = Unlocked
    /\ handles > 0
    /\ info' = [called |-> TRUE,
                num_allocs |-> nallocd,
                size_allocs |-> PoolBytes(nallocd),
                num_free |-> Len(flist),
                size_free |-> PoolBytes(Len(flist)),
                allocsize |-> SlotBytes,
                fixedsize |-> TRUE,
                has_stats |-> TRUE,
                ipsize |-> info.ipsize,
                used |-> info.used,
                heldthen |-> NHeld(MaxAddr),
                inthen |-> Outstanding - NHeld(MaxAddr),
                flistthen |-> Len(flist)]
    /\ UNCHANGED <<elemsize, allocsize, numalloc, capped, ndebug, aborted,
                   flist, nallocd, heap, held, pc, loc, last, sysfail, ep,
                   track, mem,
                   lock,
                   handles, alive>>

(***************************************************************************)
(* The pool's lifetime: shared_ptr<freelist_allocator>                     *)
(***************************************************************************)
\* the owners of the pool, had the deleters kept a plain pointer
PoolRefsHandlesOnly == handles

\* the owners of the pool: the clients' handles, and the freelist_deleter
\* of every buffer given out (alloc : shared_from_this()), which lives
\* until operator() has returned
PoolRefs ==
    handles
    + Cardinality({a \in Addrs : held[a] > 0 /\ ~mem[a].dyn})
    + Cardinality({t \in Threads : pc[t] = "free"})

\* a client drops its vector_allocator
drop_handle(t) ==
    /\ UNCHANGED notpool
    /\ ~aborted
    /\ Caller(t)
    /\ \A u \in Threads : pc[u] \notin {"sysalloc", "relock"}
    /\ handles > 0
    /\ handles' = handles - 1
    /\ UNCHANGED <<elemsize, allocsize, numalloc, capped, ndebug, aborted,
                   flist, nallocd, heap, held, pc, loc, last, sysfail, ep,
                   track, mem, info, lock, alive>>

\* ~freelist_allocator, run when the last owner is gone:
\* assert(nallocd==0), then the free list is freed under the lock
destroy(t) ==
    /\ UNCHANGED notpool
    /\ ~aborted
    /\ Caller(t)
    /\ alive /\ PoolRefs = 0
    /\ lock = Unlocked
    /\ IF ~ndebug /\ nallocd # 0
       THEN /\ aborted' = TRUE
            /\ UNCHANGED <<flist, heap, alive>>
       ELSE /\ flist' = << >>
            /\ heap' = heap \ Range(flist)
            /\ alive' = FALSE
            /\ aborted' = aborted
    /\ UNCHANGED <<elemsize, allocsize, numalloc, capped, ndebug, nallocd,
                   held, pc, loc, last, sysfail, ep, track, mem, info, lock,
                   handles>>

NextPoolLife ==
    \/ \E t \in Threads, n \in Requests, zero \in BOOLEAN : alloc(t, n, zero)
    \/ \E t \in Threads : sysalloc(t)
    \/ \E t \in Threads : relock(t)
    \/ \E t \in Threads, a \in Addrs : deleter(t, a)
    \/ \E t \in Threads : deleter_free(t)
    \/ \E t \in Threads : drop_handle(t)
    \/ \E t \in Threads : destroy(t)

NextPoolInfo ==
    \/ \E t \in Threads, n \in Requests, zero \in BOOLEAN : alloc(t, n, zero)
    \/ \E t \in Threads : sysalloc(t)
    \/ \E t \in Threads : relock(t)
    \/ \E t \in Threads, a \in Addrs : deleter(t, a)
    \/ \E t \in Threads : deleter_free(t)
    \/ \E t \in Threads : collect_info(t)

NextPoolMem ==
    \/ \E t \in Threads, n \in Requests, zero \in BOOLEAN : alloc(t, n, zero)
    \/ \E t \in Threads : sysalloc(t)
    \/ \E t \in Threads : relock(t)
    \/ \E t \in Threads, a \in Addrs : deleter(t, a)
    \/ \E t \in Threads : deleter_free(t)
    \/ \E t \in Threads, a \in Addrs : write(t, a)
    \/ \E t \in Threads, zero \in BOOLEAN : default_alloc(t, zero)
    \/ \E t \in Threads, a \in Addrs : free_deleter(t, a)

\* the pool, with the last request recorded
SpecPool == InitPoolOf("req") /\ [][NextPool]_vars
\* the pool until its destructor has run, no history recorded
SpecPoolLife == InitPoolOf("life") /\ [][NextPoolLife]_vars
\* the pool, with what info() returned last recorded
SpecPoolInfo == InitPoolOf("info") /\ [][NextPoolInfo]_vars
\* the fixed pool and the dynamic pool, with the buffers' contents recorded
SpecPoolMem == InitPoolOf("mem") /\ [][NextPoolMem]_vars
\* the pool, with the run of simultaneous allocations recorded
SpecPoolRun == InitPoolOf("run") /\ [][NextPool]_vars

(***************************************************************************)
(* ByteBuffer, SerializeHelper, shared_vector: the parts the codec uses    *)
(***************************************************************************)
\* values a byte takes
ByteMod == 256
\* sizes below this are written as one byte
SizeEsc == 254

Orders == {"big", "little"}
\* sizeof(T) of the fixed-width element types tried
ElemWidths == {1, 2, 4}

Reverse(s) == [j \in 1 .. Len(s) |-> s[Len(s) + 1 - j]]

RECURSIVE ToBytesBE(_, _)
ToBytesBE(v, n) ==
    IF n = 0 THEN << >> ELSE Append(ToBytesBE(v \div ByteMod, n - 1), v % ByteMod)

RECURSIVE FromBytesBE(_)
FromBytesBE(bs) ==
    IF bs = << >> THEN 0
    ELSE FromBytesBE(SubSeq(bs, 1, Len(bs) - 1)) * ByteMod + bs[Len(bs)]

\* one element of n bytes in the given byte order
ToBytes(v, n, order) ==
    IF order = "big" THEN ToBytesBE(v, n) ELSE Reverse(ToBytesBE(v, n))

FromBytes(bs, order) ==
    IF order = "big" THEN FromBytesBE(bs) ELSE FromBytesBE(Reverse(bs))

\* bytes j..k of bs, zero where bs has none (a read past the data)
Bytes(bs, j, k) == [i \in 1 .. (k - j + 1) |->
                        IF j + i - 1 <= Len(bs) THEN bs[j + i - 1] ELSE 0]

Drop(bs, n) == SubSeq(bs, n + 1, Len(bs))

\* ByteBuffer::putArray / getArray: n elements in the buffer's byte order
RECURSIVE PutArray(_, _, _)
PutArray(elems, n, order) ==
    IF elems = << >> THEN << >>
    ELSE ToBytes(Head(elems), n, order) \o PutArray(Tail(elems), n, order)

GetArray(bs, cnt, n, order) ==
    [j \in 1 .. cnt |-> FromBytes(Bytes(bs, (j - 1) * n + 1, j * n), order)]

\* ByteBuffer::reverse<T>(): the buffer's byte order is not the host's
reverse == w > 1 /\ bo # ho

\* SerializeHelper::writeSize / readSize
WriteSize(n) == IF n < SizeEsc THEN <<n>> ELSE <<SizeEsc>> \o ToBytes(n, 4, bo)

\* shared_vector::resize(n): the first elements kept, the new ones zero
Resize(v, n) == [j \in 1 .. n |-> IF j <= Len(v) THEN v[j] ELSE 0]

\* shared_vector::slice(offset, count), clamped to the vector
Slice(v, off, cnt) ==
    SubSeq(v, Min(off, Len(v)) + 1, Min(off, Len(v)) + Min(cnt, Len(v) - Min(off, Len(v))))

(***************************************************************************)
(* The arrays serialized                                                   *)
(***************************************************************************)
\* longest array
MaxLen == 2

\* element values: 0, 1 and the value whose bytes are those of 1 reversed
ElemVals(n) == {0, 1, ByteMod ^ (n - 1)}

Arrays(n) == UNION {[1 .. l -> ElemVals(n)] : l \in 0 .. MaxLen}

\* capacities of the output ByteBuffer
OutCaps == {4, 6}

\* the pool takes no part
PoolOff ==
    /\ elemsize = 1 /\ allocsize = 1 /\ numalloc = 0 /\ capped = FALSE
    /\ flist = << >> /\ nallocd = 0 /\ ndebug = FALSE /\ aborted = FALSE
    /\ heap = {} /\ held = [a \in Addrs |-> 0]
    /\ pc = [t \in Threads |-> "idle"] /\ loc = [t \in Threads |-> NoLoc]
    /\ last = NoReq /\ sysfail = FALSE /\ ep = NoEp /\ track = "off"
    /\ mem = [a \in Addrs |-> NoMem]
    /\ info = NoInfo
    /\ lock = Unlocked
    /\ handles = 0 /\ alive = FALSE

InitCodec ==
    /\ PoolOff /\ BitsOff /\ NodeOff /\ RegOff /\ ViewOff /\ DbgOff
    /\ cphase = "ser"
    /\ w \in ElemWidths
    /\ bo \in Orders /\ ho \in Orders
    /\ x \in Arrays(w)
    /\ \E cap \in OutCaps, d \in BOOLEAN :
        ser = [NoSer EXCEPT !.pc = "size", !.cap = cap, !.direct = d]
    /\ wire = << >>
    /\ value = << >>
    /\ des = NoDes
    /\ ref = << >>

(***************************************************************************)
(* DefaultPVArray<T>::serialize(pbuffer, pflusher, offset, count)          *)
(***************************************************************************)
\* flushSerializeBuffer: the buffer's bytes go out, the buffer is empty again
Flushed(s) == s.obuf

\* (space_for, were a begun element counted as room)
SpaceForRoundedUp(empty) == (empty + w - 1) \div w

\* (space_for, were the buffer never found to have room)
SpaceForNever(empty) == 0

\* const size_t space_for = empty/sizeof(T)
SpaceFor(empty) == empty \div w

\* temp.slice(0, getLength()); writeSize(temp.size())
ser_writeSize ==
    /\ cphase = "ser" /\ ser.pc = "size"
    /\ LET temp == Slice(x, 0, Len(x))
           full == Len(ser.obuf) + Len(WriteSize(Len(temp))) > ser.cap
       IN /\ ser' = [ser EXCEPT !.pc = "direct", !.count = Len(temp),
                        !.obuf = (IF full THEN << >> ELSE @) \o WriteSize(Len(temp))]
          /\ wire' = IF full THEN wire \o Flushed(ser) ELSE wire
    /\ UNCHANGED <<cphase, w, bo, ho, x, value, des, ref>>
    /\ UNCHANGED notcodec

\* if(!reverse) if(directSerialize(...)) return; the controller sends what
\* the buffer holds and then the array's memory as it is
ser_direct ==
    /\ cphase = "ser" /\ ser.pc = "direct"
    /\ IF ~reverse /\ ser.direct
       THEN /\ wire' = wire \o Flushed(ser) \o PutArray(x, w, ho)
            /\ ser' = [ser EXCEPT !.pc = "done", !.obuf = << >>, !.count = 0]
       ELSE /\ ser' = [ser EXCEPT !.pc = "loop"]
            /\ UNCHANGED wire
    /\ UNCHANGED <<cphase, w, bo, ho, x, value, des, ref>>
    /\ UNCHANGED notcodec

\* one turn of while(count)
ser_loop ==
    /\ cphase = "ser" /\ ser.pc = "loop" /\ ser.count > 0
    /\ LET empty == ser.cap - Len(ser.obuf)
           space_for == SpaceFor(empty)
           n2send == Min(ser.count, space_for)
       IN IF space_for = 0
          THEN /\ wire' = wire \o Flushed(ser)
               /\ ser' = [ser EXCEPT !.obuf = << >>]
          ELSE /\ ser' = [ser EXCEPT
                    !.obuf = @ \o PutArray(SubSeq(x, ser.cur + 1, ser.cur + n2send), w, bo),
                    !.cur = @ + n2send, !.count = @ - n2send]
               /\ UNCHANGED wire
    /\ UNCHANGED <<cphase, w, bo, ho, x, value, des, ref>>
    /\ UNCHANGED notcodec

\* the flushSerializeBuffer() after the loop
ser_flush ==
    /\ cphase = "ser" /\ ser.pc = "loop" /\ ser.count = 0
    /\ wire' = wire \o Flushed(ser)
    /\ ser' = [ser EXCEPT !.pc = "done", !.obuf = << >>,
                  !.roomy = SpaceFor(ser.cap - Len(ser.obuf)) > 0]
    /\ UNCHANGED <<cphase, w, bo, ho, x, value, des, ref>>
    /\ UNCHANGED notcodec

\* serialize has returned: the bytes are handed to the receiving side
ser_return ==
    /\ cphase = "ser" /\ ser.pc = "done"
    /\ cphase' = "des"
    /\ ser' = NoSer
    /\ des' = [NoDes EXCEPT !.pc = "idle", !.run = 1]
    /\ UNCHANGED <<w, bo, ho, x, wire, value, ref>>
    /\ UNCHANGED notcodec

(***************************************************************************)
(* DefaultPVArray<T>::deserialize(pbuffer, pcontrol)                       *)
(***************************************************************************)
\* how the controller delivers: all bytes are in the buffer from the start,
\* or each ensureData call makes one more byte available, or ensureData(n)
\* takes fragments of frag bytes until n bytes are available ("lazy": it
\* returns at once when they already are)
Feeds == {"all", "byte", "lazy"}
FragSizes == {2, 3}

\* the values the target node can hold before the call
Targets == {<< >>, <<1>>, <<1, 1>>}

\* fragments are taken until n bytes are available
RECURSIVE Fill(_, _)
Fill(d, n) ==
    IF Len(d.buf) >= n \/ d.stream = << >> THEN d
    ELSE LET k == Min(d.frag, Len(d.stream))
         IN Fill([d EXCEPT !.buf = @ \o SubSeq(d.stream, 1, k),
                           !.stream = Drop(@, k)], n)

\* pcontrol->ensureData(n), on the buffer and the bytes still to come
EnsureData(d, n) ==
    IF d.feed = "byte" /\ d.stream # << >>
    THEN [d EXCEPT !.buf = Append(@, Head(d.stream)), !.stream = Tail(@), !.asked = n]
    ELSE IF d.feed = "lazy"
    THEN [Fill(d, n) EXCEPT !.asked = n]
    ELSE [d EXCEPT !.asked = n]

\* a call of deserialize on a target: the first call of a behaviour is the
\* reference (everything in the buffer, no direct transfer, empty target)
des_call(feed, frag, direct, target) ==
    /\ cphase = "des" /\ des.pc = "idle"
    /\ des.run = 1 => (feed = "all" /\ ~direct /\ target = << >>)
    /\ feed = "lazy" \/ frag = 1
    /\ value' = target
    /\ des' = [des EXCEPT !.pc = "size", !.feed = feed, !.direct = direct,
                  !.before = target, !.frag = frag,
                  !.buf = IF feed = "all" THEN wire ELSE << >>,
                  !.stream = IF feed = "all" THEN << >> ELSE wire]
    /\ UNCHANGED <<cphase, w, bo, ho, x, ser, wire, ref>>
    /\ UNCHANGED notcodec

\* size_t size = SerializeHelper::readSize(pbuffer, pcontrol)
des_readSize ==
    /\ cphase = "des" /\ des.pc = "size"
    /\ LET d == EnsureData(des, 1)
       IN des' = [d EXCEPT !.pc = "thaw", !.size = Bytes(d.buf, 1, 1)[1],
                     !.buf = Drop(d.buf, 1)]
    /\ UNCHANGED <<cphase, w, bo, ho, x, ser, wire, value, ref>>
    /\ UNCHANGED notcodec

\* what the node's value can be once thaw(value) has handed its storage to
\* nextvalue: emptied, or still the old contents (nextvalue then being a copy)
ThawLeaves(v) == {<< >>, v}

\* svector nextvalue(thaw(value)); nextvalue.resize(size); then the direct
\* transfer if the controller takes it: the controller fills nextvalue's
\* memory from the bytes, then postPut(); return
des_thaw ==
    /\ cphase = "des" /\ des.pc = "thaw"
    /\ LET nextvalue == Resize(value, des.size)
           all == des.buf \o des.stream
       IN IF ~reverse /\ des.direct
          THEN des' = [des EXCEPT !.pc = "done", !.path = "direct",
                          !.nextvalue = GetArray(all, des.size, w, ho),
                          !.buf = << >>, !.stream = Drop(all, des.size * w)]
          ELSE des' = [des EXCEPT !.pc = "loop", !.nextvalue = nextvalue,
                          !.remaining = des.size, !.cur = 0]
    /\ value' \in ThawLeaves(value)
    /\ UNCHANGED <<cphase, w, bo, ho, x, ser, wire, ref>>
    /\ UNCHANGED notcodec

\* available elements counted with a partly received element as a whole one
AvailableRoundedUp(have_bytes) == (have_bytes + w - 1) \div w

\* const size_t available = have_bytes/sizeof(T)
Available(have_bytes) == have_bytes \div w

\* size_t want = sizeof(T); if(remaining==1 && sizeof(T)>1) want = sizeof(T) - have_bytes
Want(remaining, have_bytes) ==
    IF remaining = 1 /\ w > 1 THEN w - have_bytes ELSE w

\* one turn of while(remaining)
des_loop ==
    /\ cphase = "des" /\ des.pc = "loop" /\ des.remaining > 0
    /\ LET have_bytes == Len(des.buf)
           available == Available(have_bytes)
           n2read == Min(des.remaining, available)
           got == GetArray(des.buf, n2read, w, bo)
       IN IF available = 0
          THEN des' = [EnsureData(des, Want(des.remaining, have_bytes))
                          EXCEPT !.short = w - have_bytes, !.turn = 1 - @]
          ELSE des' = [des EXCEPT
                    !.nextvalue = [j \in 1 .. Len(@) |->
                        IF j > des.cur /\ j <= des.cur + n2read
                        THEN got[j - des.cur] ELSE @[j]],
                    !.buf = Drop(@, n2read * w),
                    !.cur = @ + n2read, !.remaining = @ - n2read]
    /\ UNCHANGED <<cphase, w, bo, ho, x, ser, wire, value, ref>>
    /\ UNCHANGED notcodec

\* value = freeze(nextvalue); postPut()
des_freeze ==
    /\ cphase = "des" /\ des.pc = "loop" /\ des.remaining = 0
    /\ value' = des.nextvalue
    /\ des' = [des EXCEPT !.pc = "done", !.path = "slow", !.nextvalue = << >>]
    /\ UNCHANGED <<cphase, w, bo, ho, x, ser, wire, ref>>
    /\ UNCHANGED notcodec

\* the controller raises an error where deserialize calls into it: in
\* readSize, or in the ensureData of the loop; the exception leaves
\* deserialize, destroying the local nextvalue
des_throw ==
    /\ cphase = "des"
    /\ \/ des.pc = "size"
       \/ des.pc = "loop" /\ des.remaining > 0 /\ Available(Len(des.buf)) = 0
    /\ des' = [des EXCEPT !.pc = "failed", !.nextvalue = << >>]
    /\ UNCHANGED <<cphase, w, bo, ho, x, ser, wire, value, ref>>
    /\ UNCHANGED notcodec

\* the reference call has returned: its result is kept, a second call follows
des_return ==
    /\ cphase = "des" /\ des.pc = "done" /\ des.run = 1
    /\ ref' = value
    /\ value' = << >>
    /\ des' = [NoDes EXCEPT !.pc = "idle", !.run = 2]
    /\ UNCHANGED <<cphase, w, bo, ho, x, ser, wire>>
    /\ UNCHANGED notcodec

NextCodec ==
    \/ ser_writeSize
    \/ ser_direct
    \/ ser_loop
    \/ ser_flush
    \/ ser_return
    \/ \E feed \in Feeds, frag \in FragSizes \cup {1}, direct \in BOOLEAN,
          target \in Targets :
            des_call(feed, frag, direct, target)
    \/ des_readSize
    \/ des_thaw
    \/ des_loop
    \/ des_freeze
    \/ des_throw
    \/ des_return

\* an array serialized, then deserialized twice
SpecCodec == InitCodec /\ [][NextCodec]_vars

\* the same, where a loop that can go on does go on: the controller's
\* ensureData and flushSerializeBuffer return, and serialize and
\* deserialize are run to their end
SpecCodecFair ==
    /\ SpecCodec
    /\ WF_vars(ser_writeSize) /\ WF_vars(ser_direct) /\ WF_vars(ser_loop)
    /\ WF_vars(ser_flush) /\ WF_vars(des_readSize) /\ WF_vars(des_thaw)
    /\ WF_vars(des_loop) /\ WF_vars(des_freeze)

(***************************************************************************)
(* The value tree's offsets and BitSetUtil::compress(bitSet, pvs)          *)
(***************************************************************************)
\* most fields (offsets) of the trees tried besides the test's tree
MaxFields == 5

\* the test's tree with voltage, power and the top alarm left out:
\* pvs{timeStamp{secondsPastEpoch,nanoSeconds,userTag},
\*     current{value, alarm{severity,status,message}}}, offsets in pre-order
offsetTimeStamp == 1
offsetSeconds == 2
offsetNano == 3
offsetUserTag == 4
offsetCurrent == 5
offsetValue == 6
offsetAlarm == 7
offsetSeverity == 8
offsetStatus == 9
offsetMessage == 10

TestTree == [n |-> 11, parent |-> <<0, 1, 1, 1, 0, 5, 5, 7, 7, 7>>]

\* a is an ancestor of field i
RECURSIVE IsAncestor(_, _, _)
IsAncestor(par, a, i) ==
    i # 0 /\ (par[i] = a \/ IsAncestor(par, a, par[i]))

\* offsets are given in pre-order: a field's parent is the field before it
\* or one of that field's ancestors
PreOrdered(n, par) ==
    \A i \in 1 .. (n - 1) :
        par[i] < i /\ (par[i] = i - 1 \/ IsAncestor(par, par[i], i - 1))

TreesOf(n) == {[n |-> n, parent |-> par] :
                 par \in {q \in [1 .. (n - 1) -> 0 .. (n - 2)] : PreOrdered(n, q)}}

Trees == UNION {TreesOf(n) : n \in 2 .. MaxFields} \cup {TestTree}

\* getNumberFields of the whole tree
Offsets(t) == 0 .. (t.n - 1)

\* the immediate children of the field at offset p
Children(t, p) == {i \in 1 .. (t.n - 1) : t.parent[i] = p}

\* a Structure-value (one with fields in it)
IsStructure(t, p) == Children(t, p) # {}

\* getNextFieldOffset: the offset after the subtree of p
RECURSIVE NextOffset(_, _)
NextOffset(t, p) ==
    IF Children(t, p) = {} THEN p + 1
    ELSE NextOffset(t, CHOOSE c \in Children(t, p) :
                            \A d \in Children(t, p) : d <= c)

\* the offsets strictly inside the subtree of p
Inside(t, p) == (p + 1) .. (NextOffset(t, p) - 1)

\* the structures of the subtree of p, each before its children
RECURSIVE ParentFirst(_, _)
ParentFirst(t, p) ==
    LET RECURSIVE Kids(_)
        Kids(c) == IF c >= NextOffset(t, p) THEN << >>
                   ELSE ParentFirst(t, c) \o Kids(NextOffset(t, c))
    IN IF IsStructure(t, p) THEN <<p>> \o Kids(p + 1) ELSE << >>

\* the structures of the subtree of p in the order compress handles them:
\* the children, first to last, before the parent
RECURSIVE PostOrder(_, _)
PostOrder(t, p) ==
    LET RECURSIVE Kids(_)
        Kids(c) == IF c >= NextOffset(t, p) THEN << >>
                   ELSE PostOrder(t, c) \o Kids(NextOffset(t, c))
    IN IF IsStructure(t, p) THEN Kids(p + 1) \o <<p>> ELSE << >>

\* a child's bit is set
AnyChildSet(t, p, b) == Children(t, p) \cap b # {}

\* the bits at every one of the immediate children's offsets are set
AllChildrenSet(t, p, b) == Children(t, p) \subseteq b

\* the structure's bit set with the children's bits left
CollapseKeepsChildren(t, p, b) == b \cup {p}

\* the children's bits cleared with the structure's own bit left as it was
CollapseDropsAll(t, p, b) == b \ Children(t, p)

\* every one of those child bits cleared, the structure's own bit set
Collapse(t, p, b) == (b \ Children(t, p)) \cup {p}

\* compress from the k-th structure of the order on, as one computation
RECURSIVE CompressFrom(_, _, _)
CompressFrom(t, b, k) ==
    IF k > Len(PostOrder(t, 0)) THEN b
    ELSE LET p == PostOrder(t, 0)[k]
         IN CompressFrom(t, IF AllChildrenSet(t, p, b) THEN Collapse(t, p, b)
                            ELSE b, k + 1)

InitBits ==
    /\ PoolOff /\ CodecOff /\ NodeOff /\ RegOff /\ ViewOff /\ DbgOff
    /\ pvs \in Trees
    /\ bitSet \in SUBSET Offsets(pvs)
    /\ given = bitSet
    /\ bpc = 0

\* BitSetUtil::compress(bitSet, pvs) is called
compress ==
    /\ bpc = 0 /\ pvs # NoTree
    /\ bpc' = 1
    /\ UNCHANGED <<pvs, bitSet, given>>
    /\ UNCHANGED notbits

\* the next structure, its children done
compress_structure ==
    /\ bpc >= 1 /\ bpc <= Len(PostOrder(pvs, 0))
    /\ LET p == PostOrder(pvs, 0)[bpc]
       IN bitSet' = IF AllChildrenSet(pvs, p, bitSet)
                    THEN Collapse(pvs, p, bitSet)
                    ELSE bitSet
    /\ bpc' = bpc + 1
    /\ UNCHANGED <<pvs, given>>
    /\ UNCHANGED notbits

NextBits == compress \/ compress_structure

\* a bitset over a tree's offsets, compressed
SpecBits == InitBits /\ [][NextBits]_vars

(***************************************************************************)
(* Value nodes: scalar put, array operations, immutability, clone          *)
(***************************************************************************)
\* most value nodes alive
MaxNodes == 6

NodeIds == 1 .. MaxNodes

\* values put into a scalar
ScalarVals == {0, 1}

\* lengths asked for
Lengths == 0 .. 2

\* capacities asked for
Capacities == {0, 2}

\* BasePVScalar(scalar): value(0); a scalar's value is kept as <<value>>
NewScalar == [NoNode EXCEPT !.kind = "scalar", !.value = <<0>>]

\* DefaultPVArray(scalarArray): value(); PVArray(field): capacityMutable(true)
NewArray == [NoNode EXCEPT !.kind = "scalarArray", !.value = << >>,
                           !.capacityMutable = TRUE]

\* PVStructure(structure, pvFields): the nodes given are its fields
NewStructure(kids) == [NoNode EXCEPT !.kind = "structure", !.kids = kids]

\* the trees built before anything is cloned: a scalar, an array,
\* a structure of both, a structure in a structure
Shapes ==
    { <<NewScalar>>,
      <<NewArray>>,
      <<NewStructure(<<2, 3>>), NewScalar, NewArray>>,
      <<NewStructure(<<2>>), NewStructure(<<3>>), NewScalar>> }

\* the nodes of the tree under a node, the node included
RECURSIVE Reach(_)
Reach(id) == {id} \cup UNION {Reach(nodes[id].kids[j]) :
                                j \in 1 .. Len(nodes[id].kids)}

Leaves(id) == {l \in Reach(id) : nodes[l].kind # "structure"}

\* what get()/view() show on the leaves under a node
LeafValues(id) == [l \in Leaves(id) |-> nodes[l].value]

\* the trees a caller holds
Roots == {orig} \cup (IF copy = 0 THEN {} ELSE {copy})

\* the leaf values of the tree that a call through root r does not go
\* through, none while there is one tree only
Rest(r) == IF copy = 0 THEN << >>
           ELSE LeafValues(IF r = orig THEN copy ELSE orig)

\* the lowest k node ids not in use
RECURSIVE FreshIds(_, _)
FreshIds(k, from) ==
    IF k = 0 THEN << >>
    ELSE LET id == CHOOSE i \in NodeIds :
                      /\ i >= from /\ nodes[i].kind = "none"
                      /\ \A j \in NodeIds :
                            (j >= from /\ nodes[j].kind = "none") => i <= j
         IN <<id>> \o FreshIds(k - 1, id + 1)

InitNode ==
    /\ PoolOff /\ CodecOff /\ BitsOff /\ RegOff /\ ViewOff /\ DbgOff
    /\ \E shape \in Shapes :
        nodes = [i \in NodeIds |-> IF i <= Len(shape) THEN shape[i] ELSE NoNode]
    /\ orig = 1 /\ copy = 0
    /\ lastop = NoOp
    /\ npc = "idle"

\* (the immutable flag never read)
ImmutableNeverSeen(n) == FALSE

\* PVField::isImmutable()
isImmutable(n) == n.immutable

\* PVArray::isCapacityMutable()
isCapacityMutable(n) == IF isImmutable(n) THEN FALSE ELSE n.capacityMutable

\* setCapacityMutable: the test that throws never made
EscalationNeverRefused(n, isMutable) == FALSE

\* if(isMutable && PVField::isImmutable()) throw
EscalationRefused(n, isMutable) == isMutable /\ isImmutable(n)

\* the assignment to value left out
StoreForgotten(n, val) == n

\* value = val; (put)  value = next; (replace)
Store(n, val) == [n EXCEPT !.value = val]

\* the record of a call on node id, reached through the tree of root r
Call(op, id, r, arg) ==
    [NoOp EXCEPT !.op = op, !.id = id, !.root = r, !.arg = arg,
                 !.result = "running"]

\* the same with the node as it was before the call
CallOn(op, id, arg) ==
    [Call(op, id, orig, arg) EXCEPT !.before = nodes[id]]

\* BasePVScalar<T>::put(val), BasePVString::put(val): value = val, the
\* call of postPut still to come
put(r, id, val) ==
    /\ npc = "idle" /\ r \in Roots /\ id \in Reach(r)
    /\ nodes[id].kind = "scalar"
    /\ nodes' = [nodes EXCEPT ![id] = Store(@, <<val>>)]
    /\ lastop' = [Call("put", id, r, <<val>>) EXCEPT !.rest = Rest(r)]
    /\ npc' = "postPut"
    /\ UNCHANGED <<orig, copy>>
    /\ UNCHANGED notnode

\* DefaultPVArray<T>::replace(next): value = next, the call of postPut
\* still to come
replace(r, id, next) ==
    /\ npc = "idle" /\ r \in Roots /\ id \in Reach(r)
    /\ nodes[id].kind = "scalarArray"
    /\ nodes' = [nodes EXCEPT ![id] = Store(@, next)]
    /\ lastop' = [Call("replace", id, r, next) EXCEPT !.rest = Rest(r)]
    /\ npc' = "postPut"
    /\ UNCHANGED <<orig, copy>>
    /\ UNCHANGED notnode

\* PVField::postPut(): the hook is called and sees the node as it is
\* now; put or replace returns
postPut ==
    /\ npc = "postPut"
    /\ lastop' = [lastop EXCEPT !.posted = @ + 1,
                                !.seen = nodes[lastop.id].value,
                                !.result = "ok"]
    /\ npc' = "idle"
    /\ UNCHANGED <<nodes, orig, copy>>
    /\ UNCHANGED notnode

\* PVArray::setImmutable()
setImmutable(id) ==
    /\ npc = "idle" /\ id \in Reach(orig)
    /\ nodes[id].kind = "scalarArray"
    /\ nodes' = [nodes EXCEPT ![id] = [@ EXCEPT !.capacityMutable = FALSE,
                                                !.immutable = TRUE,
                                                !.sealed = nodes[id].value]]
    /\ lastop' = [Call("setImmutable", id, orig, << >>) EXCEPT !.result = "ok"]
    /\ UNCHANGED <<orig, copy, npc>>
    /\ UNCHANGED notnode

\* DefaultPVArray<T>::setCapacity(capacity)
setCapacity(id, capacity) ==
    /\ npc = "idle" /\ id \in Reach(orig)
    /\ nodes[id].kind = "scalarArray"
    /\ nodes' = IF isCapacityMutable(nodes[id])
                THEN [nodes EXCEPT ![id].reserved = Max(@, capacity)]
                ELSE nodes
    /\ lastop' = [CallOn("setCapacity", id, <<capacity>>) EXCEPT !.result = "ok"]
    /\ UNCHANGED <<orig, copy, npc>>
    /\ UNCHANGED notnode

\* DefaultPVArray<T>::setLength(length)
setLength(id, length) ==
    /\ npc = "idle" /\ id \in Reach(orig)
    /\ nodes[id].kind = "scalarArray"
    /\ LET n == nodes[id]
       IN IF isImmutable(n)
          THEN /\ lastop' = [CallOn("setLength", id, <<length>>)
                                EXCEPT !.result = "logic_error"]
               /\ UNCHANGED nodes
          ELSE /\ lastop' = [CallOn("setLength", id, <<length>>)
                                EXCEPT !.result = "ok"]
               /\ nodes' = [nodes EXCEPT ![id].value =
                               IF length = Len(n.value) THEN n.value
                               ELSE IF length < Len(n.value)
                                    THEN Slice(n.value, 0, length)
                                    ELSE Resize(n.value, length)]
    /\ UNCHANGED <<orig, copy, npc>>
    /\ UNCHANGED notnode

\* DefaultPVArray<T>::swap(other), other being the caller's vector
swap(id, o) ==
    /\ npc = "idle" /\ id \in Reach(orig)
    /\ nodes[id].kind = "scalarArray"
    /\ LET n == nodes[id]
           call == [CallOn("swap", id, o) EXCEPT !.other = o]
       IN IF isImmutable(n)
          THEN /\ lastop' = [call EXCEPT !.result = "logic_error",
                                         !.otherAfter = o]
               /\ UNCHANGED nodes
          ELSE /\ lastop' = [call EXCEPT !.result = "ok",
                                         !.otherAfter = n.value]
               /\ nodes' = [nodes EXCEPT ![id].value = o]
    /\ UNCHANGED <<orig, copy, npc>>
    /\ UNCHANGED notnode

\* PVArray::setCapacityMutable(isMutable)
setCapacityMutable(id, isMutable) ==
    /\ npc = "idle" /\ id \in Reach(orig)
    /\ nodes[id].kind = "scalarArray"
    /\ IF EscalationRefused(nodes[id], isMutable)
       THEN /\ lastop' = [CallOn("setCapacityMutable", id,
                                 IF isMutable THEN <<1>> ELSE <<0>>)
                             EXCEPT !.result = "runtime_error"]
            /\ UNCHANGED nodes
       ELSE /\ lastop' = [CallOn("setCapacityMutable", id,
                                 IF isMutable THEN <<1>> ELSE <<0>>)
                             EXCEPT !.result = "ok"]
            /\ nodes' = [nodes EXCEPT ![id].capacityMutable = isMutable]
    /\ UNCHANGED <<orig, copy, npc>>
    /\ UNCHANGED notnode

\* PVDataCreate::createPVField(fieldToClone), by the kind of the node:
\* createPVScalar(pvScalar) makes a scalar and copies the value into it,
\* createPVScalarArray(pvScalarArray) makes an array and assigns the value,
\* a structure goes to createPVStructure(fieldNames, pvStructure->getPVFields())
createPVField ==
    /\ npc = "idle" /\ copy = 0
    /\ LET from == nodes[orig]
           to == FreshIds(1, 1)[1]
       IN /\ nodes' = [nodes EXCEPT ![to] =
                IF from.kind = "scalar" THEN Store(NewScalar, from.value)
                ELSE IF from.kind = "scalarArray" THEN Store(NewArray, from.value)
                ELSE NewStructure(from.kids)]
          /\ copy' = to
    /\ lastop' = [Call("createPVField", orig, orig, << >>) EXCEPT !.result = "ok"]
    /\ UNCHANGED <<orig, npc>>
    /\ UNCHANGED notnode

NextNode ==
    \/ \E r \in NodeIds, id \in NodeIds, val \in ScalarVals : put(r, id, val)
    \/ \E r \in NodeIds, id \in NodeIds, next \in Targets : replace(r, id, next)
    \/ postPut
    \/ \E id \in NodeIds : setImmutable(id)
    \/ \E id \in NodeIds, capacity \in Capacities : setCapacity(id, capacity)
    \/ \E id \in NodeIds, length \in Lengths : setLength(id, length)
    \/ \E id \in NodeIds, o \in Targets : swap(id, o)
    \/ \E id \in NodeIds, isMutable \in BOOLEAN : setCapacityMutable(id, isMutable)
    \/ createPVField

\* value nodes built, changed and cloned
SpecNode == InitNode /\ [][NextNode]_vars

(***************************************************************************)
(* The registry of pools: vector_allocator_impl, collect_allocator_info,   *)
(* print_allocator_info                                                    *)
(***************************************************************************)
\* pools built in one run
MaxPools == 2
PoolIds == 1 .. MaxPools

\* bytes of a slot of the fixed pools registered, and their initial()
RegSlot == 4
RegInitial == 1

\* what pool_builder builds: the default allocator (a singleton), and fixed
\* pools with or without a name
Kinds == {[fixed |-> FALSE, name |-> "Default Allocator"],
          [fixed |-> TRUE, name |-> "pool"],
          [fixed |-> TRUE, name |-> ""]}

\* the pools not yet built, lowest id first
Unbuilt == {p \in PoolIds : impls[p].st = "none"}
NextId == CHOOSE p \in Unbuilt : \A q \in Unbuilt : p <= q

\* a thread outside every call picks the next operation (of the threads
\* outside a call, the first does)
RCaller(t) ==
    /\ fate = "ok"
    /\ rpc[t] = "idle"
    /\ \A u \in Threads : rpc[u] = "idle" => t <= u

\* the thread that collects and prints, besides building and destroying
Reader == 2

\* epicsMutexMustLock(poolListLock) can return: the mutex is free
RegFree == poolListLock.owner = Unlocked

\* an allocator_info as the constructor leaves it, for pool p
BaseInfo(p) ==
    [id |-> p, name |-> impls[p].name, fixedsize |-> FALSE, allocsize |-> 0,
     has_stats |-> FALSE, num_allocs |-> 0, size_allocs |-> 0,
     num_free |-> 0, size_free |-> 0]

\* default_allocator::collect_info and freelist_allocator::collect_info
InfoOf(p) ==
    IF ~impls[p].fixed THEN BaseInfo(p)
    ELSE [id |-> p, name |-> impls[p].name, fixedsize |-> TRUE,
          allocsize |-> RegSlot, has_stats |-> TRUE,
          num_allocs |-> impls[p].nallocd,
          size_allocs |-> impls[p].nallocd * RegSlot,
          num_free |-> RegInitial - impls[p].nallocd,
          size_free |-> (RegInitial - impls[p].nallocd) * RegSlot]

\* a line of the stream: what it starts with, then a string or two numbers
Line(k, s, n, b) == [k |-> k, s |-> s, n |-> n, b |-> b]
Header == Line("# Allocator info", "", 0, 0)
Footer == Line("# End Allocator info", "", 0, 0)

\* operator<<(std::ostream&, const allocator_info&)
Show(I) ==
    << Line("Name: ", IF I.name = "" THEN "<unnamed>" ELSE I.name, 0, 0) >>
    \o << IF I.fixedsize THEN Line(" Size: ", "", I.allocsize, 0)
          ELSE Line(" Size: ", "dynamic", 0, 0) >>
    \o (IF I.has_stats
        THEN << Line(" Alloc: ", "", I.num_allocs, I.size_allocs),
                Line(" Free : ", "", I.num_free, I.size_free) >>
        ELSE << >>)

\* what collect_info does on a pool that is not fully alive (registered by
\* the base constructor but not yet built, or its destructor has begun):
\* the members it reads and the mutex it locks do not exist. It may return
\* whatever it read, throw (which collect_allocator_info swallows), end the
\* process, or never return from the lock.
Torn == {"info", "throw", "crash", "hang"}

RemoveId(s, p) == SelectSeq(s, LAMBDA q : q # p)

InitRegistry ==
    /\ PoolOff /\ CodecOff /\ BitsOff /\ NodeOff /\ ViewOff /\ DbgOff
    /\ poolListOnce = "uninit"
    /\ poolListLock = [created |-> 0, owner |-> Unlocked]
    /\ poolList = << >>
    /\ impls = [p \in PoolIds |-> NoImpl]
    /\ rpc = [t \in Threads |-> "idle"]
    /\ rloc = [t \in Threads |-> NoRLoc]
    /\ fate = "ok"
    /\ seen = NoSeen

\* pool_builder::build_impl: new default_allocator / new freelist_allocator;
\* the base class constructor starts
ctor_begin(t, kind) ==
    /\ UNCHANGED notreg
    /\ RCaller(t)
    /\ Unbuilt # {}
    /\ kind.fixed \/ \A p \in PoolIds : impls[p].st = "none" \/ impls[p].fixed
    /\ impls' = [impls EXCEPT ![NextId] =
                    [st |-> "ctor", fixed |-> kind.fixed, name |-> kind.name,
                     nallocd |-> 0]]
    /\ rpc' = [rpc EXCEPT ![t] = "c_once"]
    /\ rloc' = [rloc EXCEPT ![t] = [NoRLoc EXCEPT !.p = NextId]]
    /\ UNCHANGED <<poolListOnce, poolListLock, poolList, fate, seen>>

\* doInitPoolList(): epicsThreadOnce(&poolListOnce, &initPoolList, NULL)
doInitPoolList(t) ==
    /\ UNCHANGED notreg
    /\ fate = "ok"
    /\ rpc[t] = "c_once"
    /\ poolListOnce # "running"
    /\ IF poolListOnce = "done"
       THEN /\ rpc' = [rpc EXCEPT ![t] = "c_add"]
            /\ UNCHANGED poolListOnce
       ELSE /\ poolListOnce' = "running"
            /\ rpc' = [rpc EXCEPT ![t] = "c_init"]
    /\ UNCHANGED <<poolListLock, poolList, impls, rloc, fate, seen>>

\* initPoolList: poolListLock = epicsMutexMustCreate()
initPoolList(t) ==
    /\ UNCHANGED notreg
    /\ fate = "ok"
    /\ rpc[t] = "c_init"
    /\ poolListLock' = [poolListLock EXCEPT !.created = @ + 1]
    /\ poolListOnce' = "done"
    /\ rpc' = [rpc EXCEPT ![t] = "c_add"]
    /\ UNCHANGED <<poolList, impls, rloc, fate, seen>>

\* vector_allocator_impl::vector_allocator_impl, the locked block:
\* node.self = this; ellAdd(&poolList, &node.node)
ctor_add(t) ==
    /\ UNCHANGED notreg
    /\ fate = "ok"
    /\ rpc[t] = "c_add"
    /\ IF poolListLock.created = 0
       THEN /\ fate' = "crashed"
            /\ seen' = [seen EXCEPT !.nomutex = TRUE]
            /\ UNCHANGED <<poolList, impls, rpc>>
       ELSE /\ RegFree
            /\ poolList' = Append(poolList, rloc[t].p)
            /\ impls' = [impls EXCEPT ![rloc[t].p].st = "base"]
            /\ rpc' = [rpc EXCEPT ![t] = "c_derived"]
            /\ UNCHANGED <<fate, seen>>
    /\ UNCHANGED <<poolListOnce, poolListLock, rloc>>

\* the derived class is constructed: the pool is built, or malloc fails in
\* freelist_allocator's constructor and the base class is destroyed again
ctor_derived(t) ==
    /\ UNCHANGED notreg
    /\ fate = "ok"
    /\ rpc[t] = "c_derived"
    /\ \E built \in {TRUE, ~impls[rloc[t].p].fixed} :
        IF built
        THEN /\ impls' = [impls EXCEPT ![rloc[t].p].st = "alive"]
             /\ rpc' = [rpc EXCEPT ![t] = "idle"]
        ELSE /\ impls' = [impls EXCEPT ![rloc[t].p].st = "unwind"]
             /\ rpc' = [rpc EXCEPT ![t] = "d_remove"]
    /\ UNCHANGED <<poolListOnce, poolListLock, poolList, rloc, fate, seen>>

\* a buffer is allocated from a fixed pool, under the pool's mutex
pool_alloc(t, p) ==
    /\ UNCHANGED notreg
    /\ RCaller(t)
    /\ impls[p].st = "alive" /\ impls[p].fixed
    /\ impls[p].nallocd < RegInitial
    /\ impls' = [impls EXCEPT ![p].nallocd = @ + 1]
    /\ UNCHANGED <<poolListOnce, poolListLock, poolList, rpc, rloc, fate, seen>>

\* the buffer is released, under the pool's mutex
pool_release(t, p) ==
    /\ UNCHANGED notreg
    /\ RCaller(t)
    /\ impls[p].st = "alive" /\ impls[p].fixed
    /\ impls[p].nallocd > 0
    /\ impls' = [impls EXCEPT ![p].nallocd = @ - 1]
    /\ UNCHANGED <<poolListOnce, poolListLock, poolList, rpc, rloc, fate, seen>>

\* the last owner of a fixed pool is gone: ~freelist_allocator runs (the
\* free list is freed under the pool's mutex), then its members, the mutex
\* among them, are destroyed
dtor_begin(t, p) ==
    /\ UNCHANGED notreg
    /\ RCaller(t)
    /\ impls[p].st = "alive" /\ impls[p].fixed /\ impls[p].nallocd = 0
    /\ impls' = [impls EXCEPT ![p].st = "dying"]
    /\ rpc' = [rpc EXCEPT ![t] = "d_remove"]
    /\ rloc' = [rloc EXCEPT ![t] = [NoRLoc EXCEPT !.p = p]]
    /\ UNCHANGED <<poolListOnce, poolListLock, poolList, fate, seen>>

\* vector_allocator_impl::~vector_allocator_impl: ellDelete under the
\* registry's mutex, node.self = NULL
dtor_remove(t) ==
    /\ UNCHANGED notreg
    /\ fate = "ok"
    /\ rpc[t] = "d_remove"
    /\ RegFree
    /\ poolList' = RemoveId(poolList, rloc[t].p)
    /\ impls' = [impls EXCEPT ![rloc[t].p].st = "dead"]
    /\ rpc' = [rpc EXCEPT ![t] = "idle"]
    /\ UNCHANGED <<poolListOnce, poolListLock, rloc, fate, seen>>

\* print_allocator_info: strm<<"# Allocator info\n", then
\* collect_allocator_info(&strm, &showStats); or collect_allocator_info
\* called with another callback
collect_begin(t, print) ==
    /\ UNCHANGED notreg
    /\ fate = "ok"
    /\ t = Reader /\ rpc[t] = "idle"
    /\ rloc' = [rloc EXCEPT ![t] =
                   [NoRLoc EXCEPT !.op = IF print THEN "print" ELSE "collect",
                                  !.out = IF print THEN <<Header>> ELSE << >>]]
    /\ rpc' = [rpc EXCEPT ![t] = "k_count"]
    /\ UNCHANGED <<poolListOnce, poolListLock, poolList, impls, fate, seen>>

\* collect_allocator_info, first locked block: nallocs = ellCount(&poolList).
\* doInitPoolList() is not called here.
collect_count(t) ==
    /\ UNCHANGED notreg
    /\ fate = "ok"
    /\ rpc[t] = "k_count"
    /\ IF poolListLock.created = 0
       THEN /\ fate' = "crashed"
            /\ seen' = [seen EXCEPT !.nomutex = TRUE]
            /\ UNCHANGED <<rpc, rloc>>
       ELSE /\ RegFree
            /\ rloc' = [rloc EXCEPT ![t].nallocs = Len(poolList)]
            /\ rpc' = [rpc EXCEPT ![t] = "k_lock"]
            /\ UNCHANGED <<fate, seen>>
    /\ UNCHANGED <<poolListOnce, poolListLock, poolList, impls>>

\* infos.reserve(nallocs); epicsMutexMustLock(poolListLock)
collect_lock(t) ==
    /\ UNCHANGED notreg
    /\ fate = "ok"
    /\ rpc[t] = "k_lock"
    /\ RegFree
    /\ poolListLock' = [poolListLock EXCEPT !.owner = t]
    /\ rloc' = [rloc EXCEPT ![t].cur = 1, ![t].listthen = poolList]
    /\ rpc' = [rpc EXCEPT ![t] = "k_walk"]
    /\ UNCHANGED <<poolListOnce, poolList, impls, fate, seen>>

\* one turn of the loop over the list: if(ptr->self) try {
\* ptr->self->collect_info(I); infos.push_back(I); } catch(...) {}
collect_visit(t) ==
    LET p == poolList[rloc[t].cur]
        st == impls[p].st
        next == [rloc[t] EXCEPT !.cur = @ + 1,
                                !.snap = Append(@, InfoOf(p))]
    IN
    /\ UNCHANGED notreg
    /\ fate = "ok"
    /\ rpc[t] = "k_walk"
    /\ rloc[t].cur <= Len(poolList)
    /\ seen' = [seen EXCEPT !.late = @ \/ st = "dying",
                            !.early = @ \/ st \in {"base", "unwind"}]
    /\ IF st = "alive"
       THEN /\ rloc' = [rloc EXCEPT ![t] =
                           [next EXCEPT !.infos = Append(@, InfoOf(p))]]
            /\ UNCHANGED <<rpc, fate>>
       ELSE \E o \in Torn :
            /\ rloc' = [rloc EXCEPT ![t] =
                           IF o = "info"
                           THEN [next EXCEPT !.infos =
                                    Append(@, IF st = "dying" THEN InfoOf(p)
                                              ELSE BaseInfo(p))]
                           ELSE next]
            /\ fate' = IF o = "crash" THEN "crashed" ELSE fate
            /\ rpc' = IF o = "hang" THEN [rpc EXCEPT ![t] = "hung"] ELSE rpc
    /\ UNCHANGED <<poolListOnce, poolListLock, poolList, impls>>

\* the end of the list: epicsMutexUnlock(poolListLock)
collect_unlock(t) ==
    /\ UNCHANGED notreg
    /\ fate = "ok"
    /\ rpc[t] = "k_walk"
    /\ rloc[t].cur > Len(poolList)
    /\ poolListLock' = [poolListLock EXCEPT !.owner = Unlocked]
    /\ rloc' = [rloc EXCEPT ![t].k = 1]
    /\ rpc' = [rpc EXCEPT ![t] = "k_cb"]
    /\ UNCHANGED <<poolListOnce, poolList, impls, fate, seen>>

\* (*cb)(priv, *it) for the next info collected; showStats writes it
collect_cb(t) ==
    /\ UNCHANGED notreg
    /\ fate = "ok"
    /\ rpc[t] = "k_cb"
    /\ rloc[t].k <= Len(rloc[t].infos)
    /\ rloc' = [rloc EXCEPT ![t].k = @ + 1,
                            ![t].out = IF rloc[t].op = "print"
                                       THEN @ \o Show(rloc[t].infos[rloc[t].k])
                                       ELSE @]
    /\ UNCHANGED <<poolListOnce, poolListLock, poolList, impls, rpc, fate, seen>>

\* collect_allocator_info returns; print_allocator_info writes the footer
collect_end(t) ==
    /\ UNCHANGED notreg
    /\ fate = "ok"
    /\ rpc[t] = "k_cb"
    /\ rloc[t].k > Len(rloc[t].infos)
    /\ rloc' = [rloc EXCEPT ![t].ended = TRUE,
                            ![t].out = IF rloc[t].op = "print"
                                       THEN Append(@, Footer) ELSE @]
    /\ rpc' = [rpc EXCEPT ![t] = "idle"]
    /\ UNCHANGED <<poolListOnce, poolListLock, poolList, impls, fate, seen>>

NextRegistry ==
    \/ \E t \in Threads, kind \in Kinds : ctor_begin(t, kind)
    \/ \E t \in Threads : doInitPoolList(t)
    \/ \E t \in Threads : initPoolList(t)
    \/ \E t \in Threads : ctor_add(t)
    \/ \E t \in Threads : ctor_derived(t)
    \/ \E t \in Threads, p \in PoolIds : pool_alloc(t, p)
    \/ \E t \in Threads, p \in PoolIds : pool_release(t, p)
    \/ \E t \in Threads, p \in PoolIds : dtor_begin(t, p)
    \/ \E t \in Threads : dtor_remove(t)
    \/ \E t \in Threads, print \in BOOLEAN : collect_begin(t, print)
    \/ \E t \in Threads : collect_count(t)
    \/ \E t \in Threads : collect_lock(t)
    \/ \E t \in Threads : collect_visit(t)
    \/ \E t \in Threads : collect_unlock(t)
    \/ \E t \in Threads : collect_cb(t)
    \/ \E t \in Threads : collect_end(t)

\* pools built and destroyed while the registry is collected and printed
SpecRegistry == InitRegistry /\ [][NextRegistry]_vars

(***************************************************************************)
(* An array node's buffer and a view of it: view, deserialize, replace,    *)
(* setLength, swap over reference-counted buffers                          *)
(***************************************************************************)
\* most buffers in existence at once
MaxBufs == 3
BufIds == 1 .. MaxBufs

\* the elements a handle shows
Contents(bufs, h) == IF h.b = 0 THEN << >> ELSE SubSeq(bufs[h.b], 1, h.cnt)

\* (every handle taken to be the only one of its buffer)
UniqueAlways(h, others) == TRUE

\* shared_vector::unique(): no other handle refers to the buffer
Unique(h, others) == \A o \in others : o.b = 0 \/ o.b # h.b

\* a buffer no handle refers to
FreshBuf(hs) ==
    CHOOSE b \in BufIds :
        /\ \A h \in hs : h.b # b
        /\ \A c \in BufIds : (\A h \in hs : h.b # c) => b <= c

\* buffers no handle refers to any more are released
Collect(bufs, hs) ==
    [b \in BufIds |-> IF \E h \in hs : h.b = b THEN bufs[b] ELSE << >>]

\* n elements: those of v, then T()
Padded(v, n) == [j \in 1 .. n |-> IF j <= Len(v) THEN v[j] ELSE 0]

\* thaw makes a private copy unless the handle is the only one
ThawCopies(h, others) == h.b # 0 /\ ~Unique(h, others)

\* thaw(value): the mutable handle, and the buffers after it
BufThaw(bufs, h, others) ==
    IF ThawCopies(h, others)
    THEN LET f == FreshBuf(others \cup {h})
         IN [h |-> [b |-> f, cnt |-> h.cnt],
             bufs |-> [bufs EXCEPT ![f] = Contents(bufs, h)]]
    ELSE [h |-> h, bufs |-> bufs]

\* shared_vector::resize(n): in place where the buffer is the handle's alone
\* and large enough, into a new buffer otherwise
BufResize(bufs, h, others, n) ==
    IF n = h.cnt /\ Unique(h, others) THEN [h |-> h, bufs |-> bufs]
    ELSE IF h.b # 0 /\ Unique(h, others) /\ n <= Len(bufs[h.b])
    THEN [h |-> [h EXCEPT !.cnt = n], bufs |-> bufs]
    ELSE IF n = 0 /\ h.b = 0 THEN [h |-> h, bufs |-> bufs]
    ELSE LET f == FreshBuf(others \cup {h})
             v == Contents(bufs, h)
         IN [h |-> [b |-> f, cnt |-> n],
             bufs |-> [bufs EXCEPT ![f] = Padded(SubSeq(v, 1, Min(n, Len(v))), n)]]

\* shared_vector::slice(0, n): the handle narrowed, no buffer touched
BufSlice(h, n) == [h EXCEPT !.cnt = Min(n, h.cnt)]

\* the first k elements of a buffer overwritten with those of v
Written(buf, v, k) == [j \in 1 .. Len(buf) |-> IF j <= k THEN v[j] ELSE buf[j]]

\* a vector the caller made: a buffer of its own
Made(bufs, hs, v) ==
    IF v = << >> THEN [h |-> NoHandle, bufs |-> bufs]
    ELSE LET f == FreshBuf(hs)
         IN [h |-> [b |-> f, cnt |-> Len(v)], bufs |-> [bufs EXCEPT ![f] = v]]

\* element values and vectors of the callers
ViewVals == {0, 1}
ViewVecs == UNION {[1 .. l -> ViewVals] : l \in 0 .. MaxLen}

\* a node just constructed: value()
InitView ==
    /\ PoolOff /\ CodecOff /\ BitsOff /\ NodeOff /\ RegOff /\ DbgOff
    /\ sbufs = [b \in BufIds |-> << >>]
    /\ svalue = NoHandle /\ sview = NoHandle
    /\ staken = << >> /\ sop = "none"

\* const_svector view() const {return value;}
view ==
    /\ sop # "off"
    /\ sview' = svalue
    /\ staken' = <<Contents(sbufs, svalue)>>
    /\ sbufs' = Collect(sbufs, {svalue})
    /\ sop' = "view"
    /\ UNCHANGED svalue
    /\ UNCHANGED notview

\* the caller lets go of its view
view_drop ==
    /\ sop # "off" /\ staken # << >>
    /\ sview' = NoHandle /\ staken' = << >>
    /\ sbufs' = Collect(sbufs, {svalue})
    /\ sop' = "drop"
    /\ UNCHANGED svalue
    /\ UNCHANGED notview

\* replace(next) with a vector the caller made, which the caller lets go
\* of afterwards: value = next
view_replace(next) ==
    /\ sop # "off"
    /\ LET m == Made(sbufs, {svalue, sview}, next)
       IN /\ svalue' = m.h
          /\ sbufs' = Collect(m.bufs, {m.h, sview})
    /\ sop' = "replace"
    /\ UNCHANGED <<sview, staken>>
    /\ UNCHANGED notview

\* replace(next) with the view itself
view_replace_view ==
    /\ sop # "off" /\ staken # << >>
    /\ svalue' = sview
    /\ sbufs' = Collect(sbufs, {sview})
    /\ sop' = "replace"
    /\ UNCHANGED <<sview, staken>>
    /\ UNCHANGED notview

\* setLength(length) on a node that is not immutable
view_setLength(length) ==
    /\ sop # "off"
    /\ LET r == IF length = svalue.cnt THEN [h |-> svalue, bufs |-> sbufs]
                ELSE IF length < svalue.cnt
                THEN [h |-> BufSlice(svalue, length), bufs |-> sbufs]
                ELSE BufResize(sbufs, svalue, {sview}, length)
       IN /\ svalue' = r.h
          /\ sbufs' = Collect(r.bufs, {r.h, sview})
    /\ sop' = "setLength"
    /\ UNCHANGED <<sview, staken>>
    /\ UNCHANGED notview

\* swap(other) with a vector the caller made, on a node that is not
\* immutable; the caller lets go of what it got
view_swap(other) ==
    /\ sop # "off"
    /\ LET m == Made(sbufs, {svalue, sview}, other)
       IN /\ svalue' = m.h
          /\ sbufs' = Collect(m.bufs, {m.h, sview})
    /\ sop' = "swap"
    /\ UNCHANGED <<sview, staken>>
    /\ UNCHANGED notview

\* deserialize of an array v of which k elements arrive: thaw(value),
\* resize(size), the elements written through data(); with all elements
\* value = freeze(nextvalue), otherwise the controller's error leaves
\* deserialize, value being what thaw left it
view_deserialize(v, k, kept) ==
    /\ sop # "off"
    /\ k <= Len(v)
    /\ LET t == BufThaw(sbufs, svalue, {sview})
           left == IF kept /\ t.h.b # svalue.b THEN svalue ELSE NoHandle
           r == BufResize(t.bufs, t.h, {left, sview}, Len(v))
           bufs == IF r.h.b = 0 THEN r.bufs
                   ELSE [r.bufs EXCEPT ![r.h.b] = Written(@, v, k)]
       IN /\ svalue' = IF k = Len(v) THEN r.h ELSE left
          /\ sbufs' = Collect(bufs, {svalue', sview})
    /\ sop' = IF k = Len(v) THEN "deserialize" ELSE "failed"
    /\ UNCHANGED <<sview, staken>>
    /\ UNCHANGED notview

NextView ==
    \/ view
    \/ view_drop
    \/ \E next \in ViewVecs : view_replace(next)
    \/ view_replace_view
    \/ \E length \in 0 .. MaxLen : view_setLength(length)
    \/ \E other \in ViewVecs : view_swap(other)
    \/ \E v \in ViewVecs, k \in 0 .. MaxLen, kept \in BOOLEAN :
            view_deserialize(v, k, kept)

\* an array node, views taken of it and operations applied to it
SpecView == InitView /\ [][NextView]_vars

(***************************************************************************)
(* epics::debug::shared_ptr_base: the pointers tracked                     *)
(***************************************************************************)
\* most pointer objects alive at once
MaxPtrs == 3
PtrIds == 1 .. MaxPtrs

\* a tracker per pointer object is the most there can be
TrackIds == 1 .. MaxPtrs

\* the objects pointed to; 0 is the null pointer
Bases == {0, 1}

\* storage that holds no pointer object
NoPtr == [alive |-> FALSE, track |-> 0, base |-> 0]

\* the pointer objects, debugGbl::pointers and every tracker's refs
Dbg == [ptr |-> dptrs, pointers |-> pointers, refs |-> refs]

\* new tracker: one no pointer object holds
NewTracker(st) ==
    CHOOSE t \in TrackIds :
        /\ \A q \in PtrIds : st.ptr[q].track # t
        /\ \A u \in TrackIds : (\A q \in PtrIds : st.ptr[q].track # u) => t <= u

\* (dountrack that leaves the pointer in debugGbl::pointers)
dountrackLocalOnly(st, p) ==
    IF st.ptr[p].track # 0
    THEN [st EXCEPT !.refs[st.ptr[p].track] = @ \ {p}]
    ELSE st

\* shared_ptr_base::dotrack()
dotrack(st, p) ==
    IF st.ptr[p].track # 0
    THEN [st EXCEPT !.refs[st.ptr[p].track] = @ \cup {p},
                    !.pointers = @ \cup {p}]
    ELSE st

\* shared_ptr_base::dountrack()
dountrack(st, p) ==
    IF st.ptr[p].track # 0
    THEN [st EXCEPT !.pointers = @ \ {p},
                    !.refs[st.ptr[p].track] = @ \ {p}]
    ELSE st

\* ptr_base::base_assign(o)
ptr_base_assign(st, p, o) ==
    IF p # o
    THEN [st EXCEPT !.ptr[p].track = st.ptr[o].track,
                    !.ptr[p].base = st.ptr[o].base]
    ELSE st

\* ptr_base::base_move(o)
ptr_base_move(st, p, o) ==
    IF p # o
    THEN [st EXCEPT !.ptr[p].track = st.ptr[o].track,
                    !.ptr[o].track = 0,
                    !.ptr[p].base = st.ptr[o].base,
                    !.ptr[o].base = 0]
    ELSE st

\* ptr_base::swap(o)
ptr_base_swap(st, p, o) ==
    IF p # o
    THEN [st EXCEPT !.ptr[p].track = st.ptr[o].track,
                    !.ptr[o].track = st.ptr[p].track,
                    !.ptr[p].base = st.ptr[o].base,
                    !.ptr[o].base = st.ptr[p].base]
    ELSE st

\* a tracker is destroyed with the last pointer object that holds it
Released(st) ==
    [st EXCEPT !.refs = [t \in TrackIds |->
        IF \E q \in PtrIds : st.ptr[q].track = t THEN st.refs[t] ELSE {}]]

\* the operation op ends in st
Becomes(st, op) ==
    /\ dptrs' = st.ptr
    /\ pointers' = st.pointers
    /\ refs' = Released(st).refs
    /\ dop' = op
    /\ UNCHANGED notdbg

InitDbg ==
    /\ PoolOff /\ CodecOff /\ BitsOff /\ NodeOff /\ RegOff /\ ViewOff
    /\ dptrs = [p \in PtrIds |-> NoPtr]
    /\ pointers = {}
    /\ refs = [t \in TrackIds |-> {}]
    /\ dop = "none"

\* an object at p is alive, storage at p is free
Alive(p) == dop # "off" /\ dptrs[p].alive
Free(p) == dop # "off" /\ ~dptrs[p].alive

\* shared_ptr_base(const void *base, size_t bsize)
dbg_new(p, base) ==
    /\ Free(p)
    /\ LET s0 == [Dbg EXCEPT !.ptr[p] = [alive |-> TRUE, track |-> 0, base |-> base]]
           s1 == IF base # 0
                 THEN dotrack([s0 EXCEPT !.ptr[p].track = NewTracker(s0)], p)
                 ELSE s0
       IN Becomes(s1, "new")

\* shared_ptr_base(const track_t& t, const void *base, size_t bsize), the
\* tracker being that of o (a cast of o, or o's weak pointer locked)
dbg_cast(p, o, base) ==
    /\ Free(p) /\ Alive(o)
    /\ base \in {0, dptrs[o].base}
    /\ LET s0 == [Dbg EXCEPT !.ptr[p] = [alive |-> TRUE,
                                         track |-> dptrs[o].track,
                                         base |-> base]]
       IN Becomes(dotrack(s0, p), "cast")

\* shared_ptr_base(const shared_ptr_base& other)
dbg_copy(p, o) ==
    /\ Free(p) /\ Alive(o)
    /\ LET s0 == [Dbg EXCEPT !.ptr[p] = [alive |-> TRUE,
                                         track |-> dptrs[o].track,
                                         base |-> dptrs[o].base]]
       IN Becomes(dotrack(s0, p), "copy")

\* shared_ptr_base(shared_ptr_base&& o)
dbg_move_ctor(p, o) ==
    /\ Free(p) /\ Alive(o)
    /\ LET s0 == [Dbg EXCEPT !.ptr[p] = [alive |-> TRUE, track |-> 0, base |-> 0]]
           s1 == dountrack(s0, o)
           s2 == ptr_base_move(s1, p, o)
       IN Becomes(dotrack(s2, p), "move_ctor")

\* ~shared_ptr_base(), then the members' destructors
dbg_destroy(p) ==
    /\ Alive(p)
    /\ LET s1 == dountrack(Dbg, p)
       IN Becomes([s1 EXCEPT !.ptr[p] = NoPtr], "destroy")

\* shared_ptr_base::base_assign(o)
dbg_assign(p, o) ==
    /\ Alive(p) /\ Alive(o)
    /\ LET s1 == dountrack(Dbg, p)
           s2 == ptr_base_assign(s1, p, o)
       IN Becomes(dotrack(s2, p), "assign")

\* shared_ptr_base::base_move(o)
dbg_move(p, o) ==
    /\ Alive(p) /\ Alive(o)
    /\ LET s1 == dountrack(Dbg, p)
           s2 == dountrack(s1, o)
           s3 == ptr_base_move(s2, p, o)
       IN Becomes(dotrack(s3, p), "move")

\* shared_ptr_base::swap(o)
dbg_swap(p, o) ==
    /\ Alive(p) /\ Alive(o)
    /\ LET s1 == dountrack(Dbg, p)
           s2 == dountrack(s1, o)
           s3 == ptr_base_swap(s2, p, o)
           s4 == dotrack(s3, p)
       IN Becomes(dotrack(s4, o), "swap")

\* shared_ptr_base::reset(ptr, ps)
dbg_reset(p, ptr) ==
    /\ Alive(p)
    /\ LET s1 == dountrack(Dbg, p)
           s2 == Released([s1 EXCEPT !.ptr[p].track = 0])
           s3 == [s2 EXCEPT !.ptr[p].track = IF ptr # 0 THEN NewTracker(s2) ELSE 0,
                            !.ptr[p].base = ptr]
       IN Becomes(dotrack(s3, p), "reset")

NextDbg ==
    \/ \E p \in PtrIds, base \in Bases : dbg_new(p, base)
    \/ \E p \in PtrIds, o \in PtrIds, base \in Bases : dbg_cast(p, o, base)
    \/ \E p \in PtrIds, o \in PtrIds : dbg_copy(p, o)
    \/ \E p \in PtrIds, o \in PtrIds : dbg_move_ctor(p, o)
    \/ \E p \in PtrIds : dbg_destroy(p)
    \/ \E p \in PtrIds, o \in PtrIds : dbg_assign(p, o)
    \/ \E p \in PtrIds, o \in PtrIds : dbg_move(p, o)
    \/ \E p \in PtrIds, o \in PtrIds : dbg_swap(p, o)
    \/ \E p \in PtrIds, ptr \in Bases : dbg_reset(p, ptr)

\* tracked pointers made, copied, moved, assigned, swapped, reset, destroyed
SpecDbg == InitDbg /\ [][NextDbg]_vars

(***************************************************************************)
(* Properties of the pool                                                  *)
(***************************************************************************)

\* C1: in a capped(n) pool a request of at most s elements is rejected
\* exactly when n allocations are outstanding at the time of the request.
CappedRejectsExactlyAtCap ==
    (capped /\ last.result # "none" /\ last.n <= allocsize)
        => (last.result = "bad_alloc" <=> last.out = numalloc)

CappedRejectsExactlyAtCap_witness ==
    /\ capped /\ numalloc = 2 /\ last.n <= allocsize
    /\ last.result = "bad_alloc" /\ last.out = 2
    /\ \E t \in Threads : pc[t] = "relock"

\* C2 (as claimed): the free list never holds more than n buffers, also
\* right after construction with any initial(i).
FreeListWithinBound == ~aborted => Len(flist) <= numalloc

\* C3: a cached(n) pool never rejects a request of at most s elements because
\* of the number of outstanding allocations.
CachedNeverRejectsForCount ==
    (~capped /\ last.result # "none" /\ last.n <= allocsize)
        => last.result = "ok"

CachedNeverRejectsForCount_witness ==
    /\ ~capped /\ numalloc = 1 /\ last.n <= allocsize
    /\ last.result = "ok" /\ last.out >= 1
    /\ NHeld(MaxAddr) = 2

\* C4 (as claimed): a request of more than s elements is rejected.
OversizeRejected ==
    (last.result # "none" /\ last.n > allocsize) => last.result = "bad_alloc"

ReleasedRunLeavesMinFree ==
    (ep.mono /\ ep.phase = "rel" /\ ep.k >= 1 /\ nallocd = 0)
        => Len(flist) = Min(numalloc, Max(ep.f, ep.k))

\* C7: no buffer is held twice, none is held and on the free list, and the
\* free list holds no buffer twice.
NoSlotSharedTwice ==
    /\ \A a \in Addrs : held[a] <= 1
    /\ \A a \in Addrs : held[a] > 0 => a \notin Range(flist)
    /\ \A i, j \in 1 .. Len(flist) : flist[i] = flist[j] => i = j
    /\ \A t \in Threads : pc[t] \in {"relock", "free"} /\ loc[t].A # NULL
            => held[loc[t].A] = 0 /\ loc[t].A \notin Range(flist)

NoSlotSharedTwice_witness ==
    /\ NHeld(MaxAddr) = 2
    /\ \E t \in Threads : pc[t] = "free"
    /\ ~ndebug


(***************************************************************************)
(* Properties of deserialize and serialize                                 *)
(***************************************************************************)
\* the call under way has returned
Returned == cphase = "des" /\ des.pc = "done"

\* C8: a second deserialize of the same bytes, given by a controller that
\* makes one more byte available per ensureData call and decoded element by
\* element, leaves the target with the length and the elements that the
\* call with all bytes in the buffer left, whatever the target held before.
FragmentedEqualsWhole ==
    (Returned /\ des.run = 2 /\ des.feed = "byte" /\ des.path = "slow")
        => value = ref

\* C8 witness: two four-byte elements arrived one byte at a time, the last
\* byte of the last element being the last fragment
FragmentedEqualsWhole_witness ==
    /\ Returned /\ des.run = 2 /\ des.feed = "byte" /\ des.path = "slow"
    /\ w = 4 /\ Len(x) = 2 /\ x[2] = 1 /\ des.asked = 1
    /\ value = ref /\ Len(value) = 2

\* C9 (as stated): whenever deserialize has returned, the node's value is
\* the array that was serialized and every byte serialize produced has been
\* consumed.
RoundTrip ==
    Returned => (value = x /\ des.buf = << >> /\ des.stream = << >>)

\* C10 (as stated): after a deserialize in which the controller took the
\* direct transfer, the node's value is the one the element by element path
\* produced on the same bytes.
DirectEqualsSlow ==
    (Returned /\ des.run = 2 /\ des.path = "direct") => value = ref

\* a deserialize call has ended with the controller's error
Failed == cphase = "des" /\ des.pc = "failed"

\* C11 (as stated): after a deserialize that the controller's error ended,
\* the node's value is the value it had before the call.
FailedLeavesTarget == Failed => value = des.before

(***************************************************************************)
(* Properties of compress                                                  *)
(***************************************************************************)
\* compress has handled every structure of the tree
Compressed == bpc = Len(PostOrder(pvs, 0)) + 1

\* the order handles each structure once, and none before one inside it
ChildrenBeforeParent ==
    LET order == PostOrder(pvs, 0)
    IN /\ Range(order) = {p \in Offsets(pvs) : IsStructure(pvs, p)}
       /\ \A k, l \in 1 .. Len(order) :
            k < l => (order[k] # order[l]
                      /\ ~IsAncestor(pvs.parent, order[k], order[l]))

\* C12: compress handles children before their parent; the step for a
\* structure whose children's bits are all set clears those bits and sets
\* the structure's own, and any other step changes no bit.  With only
\* secondsPastEpoch set nothing changes; with secondsPastEpoch, nanoSeconds
\* and userTag set exactly timeStamp's bit is left.
CompressStepRule ==
    /\ [](ChildrenBeforeParent
          /\ ((Compressed /\ pvs = TestTree /\ given = {offsetSeconds})
                => bitSet = given)
          /\ ((Compressed /\ pvs = TestTree
               /\ given = {offsetSeconds, offsetNano, offsetUserTag})
                => bitSet = {offsetTimeStamp}))
    /\ [][bpc >= 1 =>
            LET p == PostOrder(pvs, 0)[bpc]
                kids == {i \in 1 .. (pvs.n - 1) : pvs.parent[i] = p}
            IN bitSet' = IF \A c \in kids : c \in bitSet
                         THEN (bitSet \ kids) \cup {p}
                         ELSE bitSet]_vars

\* C12 witness: the three fields of timeStamp were set and are collapsed
CompressStepRule_witness ==
    /\ Compressed /\ pvs = TestTree
    /\ given = {offsetSeconds, offsetNano, offsetUserTag}
    /\ bitSet = {offsetTimeStamp}

\* the bit of p is set once the subtree of p has been handled: it was set,
\* or p is a structure all of whose children have theirs set by then
RECURSIVE SetAfterSubtree(_)
SetAfterSubtree(p) ==
    \/ p \in given
    \/ /\ \E c \in 1 .. (pvs.n - 1) : pvs.parent[c] = p
       /\ \A c \in 1 .. (pvs.n - 1) : pvs.parent[c] = p => SetAfterSubtree(c)

\* C13: the bits left are those of the fields set once their subtree was
\* collapsed whose parent has a child not so set: the collapse goes up
\* through the ancestors whose children are all set and stops below the
\* first one with an unset child.  Under current, value with severity,
\* status and message leaves the one bit of current; severity, status and
\* message alone leave the one bit of alarm.
CollapseStopsAtUnsetChild ==
    Compressed =>
        /\ bitSet = {p \in Offsets(pvs) :
                        /\ SetAfterSubtree(p)
                        /\ (p = 0 \/ \E c \in 1 .. (pvs.n - 1) :
                                /\ pvs.parent[c] = pvs.parent[p]
                                /\ ~SetAfterSubtree(c))}
        /\ (pvs = TestTree /\ given = {offsetValue, offsetSeverity,
                                       offsetStatus, offsetMessage})
                => bitSet = {offsetCurrent}
        /\ (pvs = TestTree /\ given = {offsetSeverity, offsetStatus,
                                       offsetMessage})
                => bitSet = {offsetAlarm}

\* C13 witness: the three fields of current.alarm were set, value was not
CollapseStopsAtUnsetChild_witness ==
    /\ Compressed /\ pvs = TestTree
    /\ given = {offsetSeverity, offsetStatus, offsetMessage}
    /\ bitSet = {offsetAlarm} /\ offsetCurrent \notin bitSet

\* C14: every bit 0..nfields-1 set, compress leaves exactly the root's bit.
AllSetLeavesRoot ==
    (Compressed /\ given = Offsets(pvs)) => bitSet = {0}

\* C14 witness: all eleven bits of the test's tree were set
AllSetLeavesRoot_witness ==
    /\ Compressed /\ pvs = TestTree /\ Cardinality(given) = pvs.n
    /\ bitSet = {0}

\* C15 (as stated): what compress leaves is minimal: no structure has the
\* bits of all its children set, and no bit is set strictly inside the
\* subtree of a field whose own bit is set.
CompressedIsMinimal ==
    Compressed =>
        \A p \in Offsets(pvs) :
            /\ IsStructure(pvs, p) => ~(Children(pvs, p) \subseteq bitSet)
            /\ p \in bitSet => Inside(pvs, p) \cap bitSet = {}

(***************************************************************************)
(* Properties of value nodes                                               *)
(***************************************************************************)
\* C16 (as stated): an array node marked immutable shows through view() the
\* length and contents it had when setImmutable() was called, whatever is
\* called on it afterwards.
ImmutableNeverChanges ==
    \A id \in NodeIds :
        (npc # "off" /\ nodes[id].immutable) => nodes[id].value = nodes[id].sealed

\* the last call was one of setLength(n), swap(other), setCapacityMutable(true)
RefusedKind ==
    \/ lastop.op \in {"setLength", "swap"}
    \/ lastop.op = "setCapacityMutable" /\ lastop.arg = <<1>>

\* C17: on an immutable array node setLength(n), swap(other) and
\* setCapacityMutable(true) end with an error and leave the node's length,
\* contents and capacityMutable flag, and swap's caller's vector, as they
\* were.
ImmutableRefuses ==
    (RefusedKind /\ lastop.before.immutable) =>
        /\ lastop.result \in {"logic_error", "runtime_error"}
        /\ nodes[lastop.id].value = lastop.before.value
        /\ nodes[lastop.id].capacityMutable = lastop.before.capacityMutable
        /\ nodes[lastop.id].immutable
        /\ lastop.op = "swap" => lastop.otherAfter = lastop.other

\* C17 witness: swap with another vector was refused on an immutable node
\* that holds elements
ImmutableRefuses_witness ==
    /\ lastop.op = "swap" /\ lastop.before.immutable
    /\ lastop.result = "logic_error"
    /\ Len(lastop.before.value) > 0 /\ lastop.other # lastop.before.value
    /\ nodes[lastop.id].value = lastop.before.value

\* C18 (as stated): setCapacity on an array node marked immutable ends with
\* an error.
SetCapacityRefused ==
    (lastop.op = "setCapacity" /\ lastop.before.immutable)
        => lastop.result \in {"logic_error", "runtime_error"}

\* C19 (as stated): the tree createPVField(node) returns has no node in
\* common with the original, and a put or replace through one of the two
\* trees leaves the leaf values of the other as they were.
CloneIsDeep ==
    copy # 0 =>
        /\ Reach(orig) \cap Reach(copy) = {}
        /\ lastop.op \in {"put", "replace"} =>
              LeafValues(IF lastop.root = orig THEN copy ELSE orig) = lastop.rest

\* C20: put and replace store the value before the hook is called, the
\* hook is called once and sees the value stored, and neither has
\* returned before the hook was called.
HookAfterStore ==
    /\ npc = "postPut" =>
          /\ lastop.op \in {"put", "replace"} /\ lastop.posted = 0
          /\ nodes[lastop.id].value = lastop.arg
    /\ (npc = "idle" /\ lastop.op \in {"put", "replace"}) =>
          /\ lastop.posted = 1 /\ lastop.result = "ok"
          /\ lastop.seen = lastop.arg

\* C20 witness: replace of a two-element vector has returned, the hook
\* called once having seen the two elements
HookAfterStore_witness ==
    /\ npc = "idle" /\ lastop.op = "replace" /\ lastop.posted = 1
    /\ lastop.seen = <<1, 1>> /\ nodes[lastop.id].value = <<1, 1>>

(***************************************************************************)
(* Zero-filled allocation                                                  *)
(***************************************************************************)
\* C21: a buffer handed out by calloc holds only zero bytes until its holder
\* writes to it, whether it was freshly allocated or taken from the free
\* list, and whether the pool is fixed or dynamic
CallocGivesZeros ==
    \A a \in Addrs : (held[a] > 0 /\ mem[a].z) => mem[a].c = "zero"

\* C21 witness: a recycled buffer of a debug build (poisoned when it was
\* released) is held zeroed, beside a zeroed buffer of the dynamic pool
RecycledCallocHeld ==
    /\ ~ndebug /\ ~aborted
    /\ \E a \in Addrs : held[a] > 0 /\ mem[a].z /\ mem[a].r /\ ~mem[a].dyn
    /\ \E a \in Addrs : held[a] > 0 /\ mem[a].z /\ mem[a].dyn

(***************************************************************************)
(* info()                                                                  *)
(***************************************************************************)
\* what info() reports besides num_allocs: the free-list length, both byte
\* counts as count x slot bytes in size_t, and nothing allocated and
\* initial() buffers free when alloc was never called
InfoRest ==
    /\ info.fixedsize /\ info.has_stats
    /\ info.allocsize = SlotBytes
    /\ info.num_free = info.flistthen
    /\ info.size_allocs = (info.num_allocs * SlotBytes) % SizeMod
    /\ info.size_free = (info.num_free * SlotBytes) % SizeMod
    /\ ~info.used => (info.num_allocs = 0 /\ info.num_free = info.ipsize)

\* C22 (as claimed): info() reports as num_allocs the buffers obtained from
\* the pool and not yet released, as num_free the free-list length, and
\* the byte counts as count x slot bytes; right after construction it
\* reports no allocation and initial() free buffers.
InfoCountsBuffersHeld ==
    info.called => (info.num_allocs = info.heldthen /\ InfoRest)

\* C22 (amended): num_allocs is the buffers held plus the allocations
\* admitted whose underlying allocation call has not yet handed its buffer
\* to the caller; the rest is as claimed.
InfoCountsAdmitted ==
    info.called =>
        (info.num_allocs = info.heldthen + info.inthen /\ InfoRest)

\* C22 witness: info() was called while a buffer was held and another
\* allocation was inside the underlying allocator
InfoDuringAllocation ==
    info.called /\ info.heldthen = 1 /\ info.inthen = 1

(***************************************************************************)
(* The cap under concurrent allocations and releases                       *)
(***************************************************************************)
\* C26 (as claimed): in a capped pool the allocations outstanding never
\* exceed n, outstanding plus free-list length never exceeds n, and the two
\* assertions at the entry of alloc hold, in every reachable state.
CappedWithinCap ==
    capped =>
        /\ Outstanding <= numalloc
        /\ Outstanding + Len(flist) <= numalloc
        /\ AllocAsserts

(***************************************************************************)
(* The lock is dropped around the underlying allocation                    *)
(***************************************************************************)
\* a thread is inside the underlying allocation call
InSysAlloc(t) == pc[t] = "sysalloc"

\* what thread u, not inside a call of the pool, can do at once: info(),
\* an alloc that the client's bound allows, the release of a buffer held
OthersProceed(u) ==
    /\ ENABLED collect_info(u)
    /\ (HasFreeHandle =>
            ENABLED (\E n \in Requests, zero \in BOOLEAN : alloc(u, n, zero)))
    /\ \A a \in Addrs : held[a] > 0 => ENABLED deleter(u, a)

\* C27: while a thread is inside the underlying allocation call the pool
\* mutex is held by nobody and another thread's info(), alloc and buffer
\* release can be taken at once; the pool's state is left alone by the
\* underlying allocation and is next changed by that thread in the step
\* that has taken the mutex again.
LockDroppedAroundSysAlloc ==
    /\ [](\A t \in Threads : (InSysAlloc(t) /\ ~aborted) =>
            /\ lock = Unlocked
            /\ \A u \in Threads : Caller(u) => OthersProceed(u))
    /\ [][\A t \in Threads :
            /\ (InSysAlloc(t) /\ pc'[t] # pc[t]) =>
                    (pc'[t] = "relock" /\ UNCHANGED <<flist, nallocd, held>>)
            /\ (pc[t] = "relock" /\ pc'[t] # pc[t]) =>
                    (lock \in {Unlocked, t} /\ lock' = Unlocked)]_vars

\* C27 witness: while thread 1 was inside the underlying allocation, thread
\* 2 asked info(), which counted that allocation
InfoWhileInSysAlloc ==
    /\ InSysAlloc(1) /\ lock = Unlocked
    /\ info.called /\ info.inthen = 1

(***************************************************************************)
(* A pool outlives its buffers                                             *)
(***************************************************************************)
\* the constructor's assertion has ended the process
CtorAborted == aborted /\ heap = {} /\ nallocd = 0 /\ alive

\* C30: a fixed pool whose destructor has run has no buffer outstanding,
\* held or inside a release, also after the handles were dropped; the
\* destructor's assert(nallocd==0) never fails.
PoolOutlivesBuffers ==
    /\ ~alive =>
          /\ nallocd = 0
          /\ \A a \in Addrs : ~(held[a] > 0 /\ ~mem[a].dyn)
          /\ \A t \in Threads : pc[t] = "idle"
    /\ aborted => CtorAborted

\* C30 witness: the last handle was dropped while a buffer was held, and
\* the pool is alive
BufferKeepsPoolAlive ==
    handles = 0 /\ alive /\ nallocd = 1 /\ \E a \in Addrs : held[a] = 1

(***************************************************************************)
(* Properties of the registry                                              *)
(***************************************************************************)
\* a pool that has been constructed and not yet destroyed
Constructed(p) == impls[p].st \in {"alive", "dying"}

\* those of the pools 1..n, in the order their construction began
RECURSIVE BuiltUpTo(_)
BuiltUpTo(n) ==
    IF n = 0 THEN << >>
    ELSE BuiltUpTo(n - 1) \o (IF Constructed(n) THEN <<n>> ELSE << >>)

\* the pools the callback was invoked for, in order
CalledBack(t) == [j \in 1 .. Len(rloc[t].infos) |-> rloc[t].infos[j].id]

\* C23 (as claimed): the registry holds exactly the pools constructed and
\* not yet destroyed, each once, in construction order; a
\* collect_allocator_info that has returned invoked its callback exactly
\* once for each pool registered during the call, in that order.
RegistryExact ==
    /\ fate = "ok" => poolList = BuiltUpTo(MaxPools)
    /\ rloc[Reader].ended => CalledBack(Reader) = rloc[Reader].listthen

\* C24 (as claimed): the registry's mutex is created exactly once and no
\* operation locks it before it exists.
RegistryMutexReady ==
    /\ poolListLock.created <= 1
    /\ ~seen.nomutex

\* the block of a pool as the claim describes it
Block(I) ==
    << Line("Name: ", IF I.name = "" THEN "<unnamed>" ELSE I.name, 0, 0),
       IF I.fixedsize THEN Line(" Size: ", "", I.allocsize, 0)
       ELSE Line(" Size: ", "dynamic", 0, 0) >>
    \o (IF I.has_stats
        THEN << Line(" Alloc: ", "", I.num_allocs, I.size_allocs),
                Line(" Free : ", "", I.num_free, I.size_free) >>
        ELSE << >>)

RECURSIVE Blocks(_)
Blocks(is) == IF is = << >> THEN << >> ELSE Block(Head(is)) \o Blocks(Tail(is))

\* the call of thread t is over: it returned, or it never will
Over(t) == rloc[t].ended \/ fate = "crashed" \/ rpc[t] = "hung"

\* C25 (as claimed): print_allocator_info writes the header, a block for
\* every registered pool in registration order, and the footer.
PrintWritesAll ==
    (rloc[Reader].op = "print" /\ Over(Reader)) =>
        rloc[Reader].out = <<Header>> \o Blocks(rloc[Reader].snap) \o <<Footer>>

\* C28 (as claimed): collect_allocator_info never calls collect_info on a
\* pool whose destructor has begun.
CollectInfoOnLivePool == ~seen.late

\* C29 (as claimed): no thread waits for ever; the registry's mutex is held
\* only while the list is walked, never by a thread that holds a pool's
\* mutex first, and not while the callback runs.
NoDeadlock ==
    /\ \A t \in Threads : rpc[t] # "hung"
    /\ \A t \in Threads : rpc[t] = "k_cb" => poolListLock.owner # t
    /\ \A t \in Threads : poolListLock.owner = t => rpc[t] = "k_walk"

(***************************************************************************)
(* Properties of the loops of deserialize and serialize                    *)
(***************************************************************************)
\* C31 (as stated): whenever the loop of deserialize has called ensureData,
\* finding less than one element in the buffer, the number it asked for is
\* the element's width less the bytes that were in the buffer.
AsksForTheMissingBytes ==
    (cphase = "des" /\ des.short # 0) => des.asked = des.short

\* C32 (as stated): with a controller whose ensureData(n) returns once n
\* bytes are available, a deserialize that has entered its loop leaves it,
\* with all elements read or with the controller's error.
SlowPathTerminates ==
    (cphase = "des" /\ des.pc = "loop" /\ des.feed = "lazy")
        ~> (des.pc \in {"done", "failed"})

\* serialize is in or past its loop, writing element by element
SlowSer ==
    /\ cphase = "ser" /\ ser.pc \in {"loop", "done"}
    /\ reverse \/ ~ser.direct

\* what has been written, flushed or still in the buffer, is the count
\* followed by the first cur elements in index order; the elements not yet
\* written are the rest; the buffer holds no more than its capacity; what has
\* been flushed ends with a whole element
WrittenInOrder ==
    SlowSer =>
        /\ wire \o ser.obuf
             = WriteSize(Len(x)) \o PutArray(SubSeq(x, 1, ser.cur), w, bo)
        /\ ser.cur + ser.count = Len(x)
        /\ Len(ser.obuf) <= ser.cap
        /\ wire # << >> => (Len(wire) - Len(WriteSize(Len(x)))) % w = 0
        /\ ser.pc = "done" => (ser.count = 0 /\ ser.obuf = << >>)

\* a turn of the loop flushes exactly when the buffer has no room for an
\* element, and otherwise writes as many whole elements as fit
LoopTurn ==
    (SlowSer /\ ser.pc = "loop" /\ ser'.pc = "loop")
        => LET space_for == (ser.cap - Len(ser.obuf)) \div w
           IN /\ (wire' # wire) <=> (space_for = 0)
              /\ space_for = 0 => (ser'.cur = ser.cur /\ ser'.obuf = << >>)
              /\ space_for > 0 =>
                    /\ ser'.cur - ser.cur = Min(ser.count, space_for)
                    /\ Len(ser'.obuf) - Len(ser.obuf) = w * (ser'.cur - ser.cur)

\* C33 (as stated): on the element by element path of serialize the count is
\* written once, then the elements in index order, each once and whole, every
\* write a whole number of elements that fits the buffer, and a flush is
\* requested only when the buffer has no room for one element.
FlushOnlyWithoutRoom == WrittenInOrder /\ ~ser.roomy

\* C33 (amended): the same, where the flushes of the loop are requested
\* exactly when the buffer has no room for one element, and one more flush
\* is requested after the last element whatever room the buffer has.
WholeElementsInOrder ==
    /\ [](WrittenInOrder /\ (ser.roomy => ser.pc = "done"))
    /\ [][LoopTurn]_vars

\* C33 witness: two two-byte elements went through a four-byte buffer, one
\* before and one after the flush of the loop, and the flush after the loop
\* found room in the buffer
WholeElementsInOrder_witness ==
    /\ SlowSer /\ ser.pc = "done" /\ ser.roomy
    /\ w = 2 /\ Len(x) = 2 /\ ser.cap = 4 /\ x[1] # x[2]
    /\ wire = WriteSize(2) \o PutArray(x, w, bo)

\* a flush of the loop leaves room for an element, so that the next turn
\* writes
FlushLeavesRoom ==
    (SlowSer /\ ser.pc = "loop" /\ ser'.pc = "loop" /\ ser'.cur = ser.cur)
        => (ser'.cap - Len(ser'.obuf)) \div w > 0

\* C34: where flushSerializeBuffer leaves room for one element, a serialize
\* that has entered its loop reaches its return with every element written;
\* each flush of the loop is followed by a write, and serialize has no
\* outcome other than its return.
SerializeTerminates ==
    /\ (cphase = "ser" /\ ser.pc = "loop")
          ~> (cphase = "ser" /\ ser.pc = "done" /\ ser.count = 0)
    /\ [][FlushLeavesRoom]_vars
    /\ [](cphase = "ser" => ser.pc \in {"size", "direct", "loop", "done"})

\* C34 witness: two four-byte elements have gone out through a four-byte
\* buffer, the loop having flushed before each of them
SerializeTerminates_witness ==
    /\ SlowSer /\ ser.pc = "done" /\ ser.cap = 4 /\ w = 4 /\ Len(x) = 2
    /\ Len(wire) = 9

(***************************************************************************)
(* Failure of the underlying allocator                                     *)
(***************************************************************************)
\* thread t returns from alloc with the failure of the underlying allocator
FailsFresh(t) == pc[t] = "relock" /\ pc'[t] = "idle" /\ loc[t].A = NULL

\* the step in which alloc gives up takes back the one allocation it had
\* counted and touches neither the free list nor a buffer
UndoneUnderLock ==
    \A t \in Threads : FailsFresh(t) =>
        /\ sysfail'
        /\ nallocd' = nallocd - 1
        /\ flist' = flist /\ held' = held /\ heap' = heap
        /\ lock \in {Unlocked, t} /\ lock' = Unlocked

\* C35: when the underlying allocation of a fresh buffer fails, alloc throws
\* and its own effect on the pool is none: the count is the buffers held plus
\* the allocations other threads have under way, as if the call had not been
\* made, and the free list is what the other threads left, whatever they
\* allocated or released while the lock was dropped.
FailedAllocLeavesPool ==
    /\ [](~aborted => nallocd = Outstanding)
    /\ [][UndoneUnderLock]_vars

\* C35 witness: an allocation has failed in the underlying allocator while
\* another thread holds a buffer and a buffer is on the free list, and the
\* count is the one buffer held
FailedAllocLeavesPool_witness ==
    /\ sysfail /\ \A t \in Threads : pc[t] = "idle"
    /\ NHeld(MaxAddr) = 1 /\ nallocd = 1 /\ Len(flist) = 1

(***************************************************************************)
(* The size check over all of size_t                                       *)
(***************************************************************************)
\* C37 (as stated): for every element count n of size_t, a request of more
\* than the slot's element count is rejected, also where elemsize * n wraps
\* around, and the vector of a request that was accepted has size() n.
SizeCheckHoldsModuloWrap ==
    last.result # "none" =>
        /\ last.n > allocsize => last.result = "bad_alloc"
        /\ last.result = "ok" => last.size = last.n

(***************************************************************************)
(* Immutability and the capacity flag                                      *)
(***************************************************************************)
\* setImmutable() has been called on the node
MadeImmutable(id) == npc # "off" /\ nodes[id].kind = "scalarArray" /\ nodes[id].immutable

\* a step in which setCapacityMutable(true) is refused changes no node
RefusalChangesNothing ==
    (lastop'.op = "setCapacityMutable" /\ lastop'.result = "runtime_error")
        => (nodes' = nodes /\ lastop'.arg = <<1>>)

\* C38: once setImmutable() has been called on an array node,
\* isCapacityMutable() is false in every later state whatever calls of
\* setCapacityMutable follow; the node stays immutable; a refused
\* setCapacityMutable(true) leaves the capacityMutable flag as it was.
CapacityFrozenForGood ==
    /\ [](\A id \in NodeIds : MadeImmutable(id) => ~isCapacityMutable(nodes[id]))
    /\ [][\A id \in NodeIds : MadeImmutable(id) => MadeImmutable(id)']_vars
    /\ [][RefusalChangesNothing]_vars

\* C38 witness: on a node made immutable setCapacityMutable(true) was
\* refused, the flag is false as setImmutable() left it and
\* isCapacityMutable() is false
CapacityFrozenForGood_witness ==
    /\ lastop.op = "setCapacityMutable" /\ lastop.arg = <<1>>
    /\ lastop.result = "runtime_error" /\ lastop.before.immutable
    /\ MadeImmutable(lastop.id) /\ ~nodes[lastop.id].capacityMutable
    /\ ~isCapacityMutable(nodes[lastop.id])

(***************************************************************************)
(* Views of an array node                                                  *)
(***************************************************************************)
\* C36: a view taken of an array node shows the length and the elements it
\* showed when it was taken, whatever deserialize, replace, setLength and
\* swap have done to the node since.
ViewKeepsContents ==
    staken # << >> => Contents(sbufs, sview) = staken[1]

\* C36 witness: a view of two elements was taken, a deserialize of two
\* other elements has returned, and the node's buffer is not the view's
ViewKeepsContents_witness ==
    /\ staken # << >> /\ Len(staken[1]) = 2 /\ sop = "deserialize"
    /\ svalue.cnt = 2 /\ svalue.b # sview.b
    /\ Contents(sbufs, svalue) # staken[1]
    /\ Contents(sbufs, sview) = staken[1]

(***************************************************************************)
(* What a compressed bitset means                                          *)
(***************************************************************************)
\* the leaf is marked changed by the bits b: its own bit or the bit of one
\* of its ancestors is set
Marked(t, b, leaf) ==
    leaf \in b \/ \E a \in b : a < leaf /\ IsAncestor(t.parent, a, leaf)

\* the leaves of the tree marked changed by b
MarkedLeaves(t, b) ==
    {l \in Offsets(t) : ~IsStructure(t, l) /\ Marked(t, b, l)}

\* C39: during and after compress the leaves marked changed are those the
\* bitset given marked changed, and compress applied to what compress left
\* changes nothing.
CompressKeepsMeaning ==
    /\ pvs # NoTree => MarkedLeaves(pvs, bitSet) = MarkedLeaves(pvs, given)
    /\ Compressed => CompressFrom(pvs, bitSet, 1) = bitSet

\* C39 witness: in the test's tree value, severity, status and message were
\* set; compress left the one bit of current, under which the same four
\* leaves are marked
CompressKeepsMeaning_witness ==
    /\ Compressed /\ pvs = TestTree
    /\ given = {offsetValue, offsetSeverity, offsetStatus, offsetMessage}
    /\ bitSet = {offsetCurrent}
    /\ MarkedLeaves(pvs, bitSet) = given

(***************************************************************************)
(* The sets of tracked pointers                                            *)
(***************************************************************************)
\* C40: a pointer object is in debugGbl::pointers, and in the refs of its
\* tracker, exactly when it is alive and has a tracker; it is in the refs of
\* no other tracker, and no destroyed or moved-from pointer object is in
\* either set.
RegisteredIffTracked ==
    dop # "off" =>
        \A p \in PtrIds :
            /\ p \in pointers <=> (dptrs[p].alive /\ dptrs[p].track # 0)
            /\ \A t \in TrackIds :
                  p \in refs[t] <=> (dptrs[p].alive /\ dptrs[p].track = t)

\* C40 witness: a pointer was moved into another, which a third pointer
\* shares the tracker of; the moved-from pointer is alive, has no tracker
\* and is in neither set
RegisteredIffTracked_witness ==
    /\ dop = "move"
    /\ \E p, q, o \in PtrIds :
          /\ p # q /\ p # o /\ q # o
          /\ dptrs[p].alive /\ dptrs[q].alive /\ dptrs[o].alive
          /\ dptrs[p].track # 0 /\ dptrs[q].track = dptrs[p].track
          /\ dptrs[o].track = 0 /\ dptrs[o].base = 0
          /\ refs[dptrs[p].track] = {p, q} /\ pointers = {p, q}

====
